---- MODULE Spec2Model ----
(***************************************************************************)
(* Model of the resume PDF export engine of AngeloImon/AngeloImon:         *)
(* the v7 generator (src/unnamed/part_001) and the deployed generator      *)
(* (src/docs/js/pdf-generator.js).                                         *)
(*                                                                         *)
(* Lengths are in half millimetres (every length of the source times 2),  *)
(* so that the spacings 3.5 and 4.5 of the v7 generator are integers.     *)
(* A text is a sequence of glyph codes; pdf.getTextWidth is the sum of     *)
(* the glyph widths of the text.                                           *)
(***************************************************************************)
EXTENDS Integers, Sequences, FiniteSets, Bags, TLC

VARIABLES
    variant,    \* which generator runs: "v7" (generatePDF of part_001), "deployed"
                \* (generatePDF of docs/js), "summary" (generateSummaryPDF of part_003)
    isReady,    \* this.isReady (v7) / this.isLibraryLoaded (deployed)
    pc,         \* position inside generatePDF, "idle" between calls
    cvData,     \* argument of the running / last generatePDF call
    language,   \* argument of the running / last generatePDF call
    pdf,        \* this.pdf: the jsPDF document (pages, current page, draw calls)
    currentY,   \* this.currentY
    queue,      \* calls of the running stage that are still to be made
    stageLog,   \* stages completed by the running / last call, in order
    saved,      \* pdf.save calls of the running / last call
    notes,      \* notifications shown by the running / last call
    thrown,     \* error the last call threw to its caller, NoError if none
    err,        \* error caught by the catch block of generatePDF
    exports,    \* number of generatePDF calls made so far
    appNotes,   \* notifications shown by the caller of the running / last call
    history,    \* what each generatePDF call made so far threw, NoError if nothing
    wrapIn,     \* input of a stand-alone wrapText call
    wrapOut,    \* its result
    loop,       \* locals of a wrapText call that is run statement by statement
    lib,        \* library detection started by the constructor, and the page's jsPDF
    dm,         \* DataManager fields, its loadCVData calls in flight, and the
                \* CVApplication fields that follow them
    cvapp,      \* CVApp (single-file application) fields and loadData calls in flight
    button      \* the export button, handlePDFExport calls in flight, restore timers

vars == <<variant, isReady, pc, cvData, language, pdf, currentY, queue,
          stageLog, saved, notes, thrown, err, exports, appNotes, history,
          wrapIn, wrapOut, loop, lib, dm, cvapp, button>>

genVars == <<variant, isReady, pc, cvData, language, pdf, currentY,
             queue, stageLog, saved, notes, thrown, err, exports, appNotes,
             history>>

-----------------------------------------------------------------------------
(* Bounds of the model *)

MaxTextLen == 6
MaxWrapWidth == 6
BigList == 50
ManyTasks == 70
ManyProjects == 7
LongWord == 36
MaxExports == 2

-----------------------------------------------------------------------------
(* Glyphs and text measurement *)

Bullet == 0
Space == 1
LowerA == 2
LowerB == 3
UpperA == 4
UpperB == 5
Comma == 6
Wide == 7
Dash == 8
LParen == 9
RParen == 10

\* width of one glyph as reported by the rendering surface
GlyphWidth(c) ==
    CASE c = Space -> 1
      [] c = LowerA -> 1
      [] c = LowerB -> 2
      [] c = UpperA -> 2
      [] c = UpperB -> 3
      [] c = Comma -> 1
      [] c = Bullet -> 2
      [] c \in {Dash, LParen, RParen} -> 1
      [] OTHER -> 200

\* the sum of the glyph widths: the size of the bag that holds position i
\* GlyphWidth(text[i]) times
getTextWidth(text) ==
    IF text = <<>> THEN 0
    ELSE BagCardinality([i \in 1..Len(text) |-> GlyphWidth(text[i])])

\* String.prototype.toUpperCase on one glyph
upperGlyph(c) ==
    CASE c = LowerA -> UpperA
      [] c = LowerB -> UpperB
      [] OTHER -> c

toUpperCase(text) == [i \in 1..Len(text) |-> upperGlyph(text[i])]

\* String.prototype.substring(0, j)
substringTo(text, j) == SubSeq(text, 1, j)

substringFrom_keep(text, j) == text

substringFrom_skip(text, j) == SubSeq(text, j + 2, Len(text))

\* String.prototype.substring(j)
substringFrom(text, j) == SubSeq(text, j + 1, Len(text))

\* String.prototype.split(' '): the pieces between consecutive separators,
\* the start and the end of the text counting as separators
split(text) ==
    LET at == <<0>> \o SelectSeq([i \in 1..Len(text) |-> i], LAMBDA i : text[i] = Space)
                   \o <<Len(text) + 1>>
    IN  [k \in 1..(Len(at) - 1) |-> SubSeq(text, at[k] + 1, at[k + 1] - 1)]

\* Array.prototype.join(sep)
RECURSIVE join(_, _)
join(items, sep) ==
    IF items = <<>> THEN <<>>
    ELSE IF Len(items) = 1 THEN items[1]
    ELSE items[1] \o sep \o join(Tail(items), sep)

testLineOf_noSpace(currentLine, word) == currentLine \o word

\* `${currentLine} ${word}` when currentLine is truthy, word otherwise
testLineOf(currentLine, word) ==
    IF currentLine # <<>> THEN currentLine \o <<Space>> \o word ELSE word

-----------------------------------------------------------------------------
(* wrapText of the v7 generator *)

\* the for loop over j: the longest prefix all of whose prefixes fit
RECURSIVE growChunk(_, _, _, _)
growChunk(remainingWord, j, chunk, maxWidth) ==
    IF j > Len(remainingWord) THEN chunk
    ELSE IF getTextWidth(substringTo(remainingWord, j)) <= maxWidth
         THEN growChunk(remainingWord, j + 1, substringTo(remainingWord, j), maxWidth)
         ELSE chunk

chunkOf_wholeWord(remainingWord, maxWidth) == remainingWord

\* one iteration of the while loop: the chunk that is pushed
chunkOf(remainingWord, maxWidth) ==
    LET chunk == growChunk(remainingWord, 1, <<>>, maxWidth)
    IN  IF Len(chunk) = 0 THEN substringTo(remainingWord, 1) ELSE chunk

\* the while loop: lines with the chunks of the word appended; lines is a
\* value at every iteration, as the array is in the loop
RECURSIVE splitWord(_, _, _)
splitWord(remainingWord, lines, maxWidth) ==
    IF Len(lines) >= 0 /\ Len(remainingWord) > 0
    THEN LET chunk == chunkOf(remainingWord, maxWidth)
         IN  splitWord(substringFrom(remainingWord, Len(chunk)),
                       Append(lines, chunk), maxWidth)
    ELSE lines

\* the for loop over the words, then the flush of the trailing line
RECURSIVE wrapWords(_, _, _, _, _)
wrapWords(words, i, lines, currentLine, maxWidth) ==
    IF Len(lines) >= 0 /\ Len(currentLine) >= 0 /\ i > Len(words)
    THEN IF currentLine # <<>> THEN Append(lines, currentLine) ELSE lines
    ELSE LET word == words[i]
             testLine == testLineOf(currentLine, word)
         IN  IF getTextWidth(word) > maxWidth
             THEN wrapWords(words, i + 1,
                      splitWord(word,
                                IF currentLine # <<>> THEN Append(lines, currentLine)
                                                      ELSE lines,
                                maxWidth),
                      <<>>, maxWidth)
             ELSE IF getTextWidth(testLine) <= maxWidth
             THEN wrapWords(words, i + 1, lines, testLine, maxWidth)
             ELSE wrapWords(words, i + 1,
                      IF currentLine # <<>> THEN Append(lines, currentLine) ELSE lines,
                      word, maxWidth)

wrapText(text, maxWidth) ==
    IF text = <<>> THEN << <<>> >>
    ELSE IF getTextWidth(text) <= maxWidth THEN <<text>>
    ELSE LET lines == wrapWords(split(text), 1, <<>>, <<>>, maxWidth)
         IN  IF Len(lines) > 0 THEN lines ELSE << <<>> >>

-----------------------------------------------------------------------------
(* wrapText of the deployed generator (wrapTextAdvanced of v5) *)

\* words.forEach(...), then the flush of the trailing line
RECURSIVE wrapWordsDeployed(_, _, _, _, _)
wrapWordsDeployed(words, i, lines, currentLine, maxWidth) ==
    IF Len(lines) >= 0 /\ Len(currentLine) >= 0 /\ i > Len(words)
    THEN IF currentLine # <<>> THEN Append(lines, currentLine) ELSE lines
    ELSE LET word == words[i]
             testLine == testLineOf(currentLine, word)
         IN  IF getTextWidth(testLine) <= maxWidth
             THEN wrapWordsDeployed(words, i + 1, lines, testLine, maxWidth)
             ELSE IF currentLine # <<>>
             THEN wrapWordsDeployed(words, i + 1, Append(lines, currentLine),
                                    word, maxWidth)
             ELSE wrapWordsDeployed(words, i + 1, Append(lines, word),
                                    <<>>, maxWidth)

wrapTextDeployed(text, maxWidth) ==
    wrapWordsDeployed(split(text), 1, <<>>, <<>>, maxWidth)

-----------------------------------------------------------------------------
(* Configuration tables, in half millimetres *)

\* PDFGenerator.CONFIG and the page size of the v7 generator: of part_001, and
\* of the copy in part_003 that has generateSummaryPDF
CONFIG ==
    IF variant = "summary"
    THEN [TOP |-> 40, BOTTOM |-> 40, LEFT |-> 40, RIGHT |-> 40,
          SECTION |-> 12, ITEM |-> 9, LINE |-> 7, HEADER |-> 12,
          pageWidth |-> 420, pageHeight |-> 594]
    ELSE [TOP |-> 24, BOTTOM |-> 24, LEFT |-> 24, RIGHT |-> 24,
          SECTION |-> 16, ITEM |-> 9, LINE |-> 7, HEADER |-> 12,
          pageWidth |-> 420, pageHeight |-> 594]

contentWidth == CONFIG.pageWidth - CONFIG.LEFT - CONFIG.RIGHT

\* this.config and PDFGenerator.CONSTANTS of the deployed generator;
\* pageHeight is pdf.internal.pageSize.getHeight() of an a4 page
DCONFIG ==
    [margin |-> 40, maxWidth |-> 340,
     afterName |-> 16, afterContact |-> 24, afterSection |-> 12,
     betweenItems |-> 8, lineHeight |-> 10,
     PAGE_BOTTOM_MARGIN |-> 40, BULLET_INDENT |-> 10, pageHeight |-> 594]

topMargin == IF variant # "deployed" THEN CONFIG.TOP ELSE DCONFIG.margin
bottomLimit ==
    IF variant # "deployed" THEN CONFIG.pageHeight - CONFIG.BOTTOM
    ELSE DCONFIG.pageHeight - DCONFIG.PAGE_BOTTOM_MARGIN

-----------------------------------------------------------------------------
(* Errors *)

NoError == "none"
notReadyError == IF variant # "deployed" THEN "PDF library not ready" ELSE "PDF library not loaded"
invalidDataError == IF variant # "deployed" THEN "Invalid CV data" ELSE "CV data must contain a valid name"
TypeError == "TypeError: text.split is not a function"
\* an exception of the rendering surface (jsPDF) raised inside a stage
surfaceError(stage) ==
    CASE stage = "init" -> "surface failure in init"
      [] stage = "header" -> "surface failure in header"
      [] stage = "content" -> "surface failure in content"
      [] stage = "footer" -> "surface failure in footer"
      [] OTHER -> "surface failure in save"

-----------------------------------------------------------------------------
(* The jsPDF document *)

NoPdf == [open |-> FALSE, pages |-> 0, cur |-> 0, draws |-> <<>>]

\* new PDFConstructor('portrait', 'mm', 'a4')
newPdf == [open |-> TRUE, pages |-> 1, cur |-> 1, draws |-> <<>>]

addPage_keepCurrent(doc) == [doc EXCEPT !.pages = @ + 1]

\* pdf.addPage(): the new page is the last one and becomes the current one
addPage(doc) == [doc EXCEPT !.pages = @ + 1, !.cur = doc.pages + 1]

\* pdf.text / pdf.line on the current page
drawOn(doc, sec, kind, text, y) ==
    [doc EXCEPT !.draws = Append(@, [sec |-> sec, kind |-> kind, text |-> text,
                                     page |-> doc.cur, y |-> y, n |-> 0, m |-> 0])]

-----------------------------------------------------------------------------
(* Calls a stage makes, in program order *)

Chk(n) == [op |-> "check", n |-> n, m |-> 0, sec |-> "", kind |-> "", text |-> <<>>]
Adv(n) == [op |-> "adv", n |-> n, m |-> 0, sec |-> "", kind |-> "", text |-> <<>>]
Txt(sec, kind, text) ==
    [op |-> "text", n |-> 0, m |-> 0, sec |-> sec, kind |-> kind, text |-> text]
Foot(i, total, name) ==
    [op |-> "footer", n |-> i, m |-> total, sec |-> "FOOTER", kind |-> "footer",
     text |-> name]
Raise(e) == [op |-> "raise", n |-> 0, m |-> 0, sec |-> "", kind |-> e, text |-> <<>>]

RECURSIVE concat(_)
concat(seqs) == IF seqs = <<>> THEN <<>> ELSE Head(seqs) \o concat(Tail(seqs))

checkPageBreak_resetToZero(st, space) ==
    IF st.y + space > bottomLimit
    THEN [st EXCEPT !.pdf = addPage(st.pdf), !.y = 0]
    ELSE st

checkPageBreak_noReset(st, space) ==
    IF st.y + space > bottomLimit
    THEN [st EXCEPT !.pdf = addPage(st.pdf)]
    ELSE st

\* checkPageBreak(space) on the layout state st = [pdf, y, err]
checkPageBreak(st, space) ==
    IF st.y + space > bottomLimit
    THEN [st EXCEPT !.pdf = addPage(st.pdf), !.y = topMargin]
    ELSE st

drawFooter_noSetPage(doc, i, total, name) ==
    [doc EXCEPT !.draws = Append(@, [sec |-> "FOOTER", kind |-> "footer", text |-> name,
                                     page |-> doc.cur, y |-> CONFIG.pageHeight - 20,
                                     n |-> i, m |-> total])]

\* the footer line of page i: setPage(i), then the text
\* `${nome} - Page ${i} of ${total}` at pageHeight - 10
drawFooter(doc, i, total, name) ==
    [doc EXCEPT !.cur = i,
                !.draws = Append(@, [sec |-> "FOOTER", kind |-> "footer", text |-> name,
                                     page |-> i, y |-> CONFIG.pageHeight - 20,
                                     n |-> i, m |-> total])]

\* effect of one call on the layout state
exec(o, st) ==
    CASE o.op = "check" -> checkPageBreak(st, o.n)
      [] o.op = "adv" -> [st EXCEPT !.y = @ + o.n]
      [] o.op = "text" -> [st EXCEPT !.pdf = drawOn(@, o.sec, o.kind, o.text, st.y)]
      [] o.op = "footer" -> [st EXCEPT !.pdf = drawFooter(@, o.n, o.m, o.text)]
      [] OTHER -> [st EXCEPT !.err = o.kind]

\* effect of a sequence of calls; a throw abandons the rest
RECURSIVE runOps(_, _)
runOps(ops, st) ==
    IF ops = <<>> \/ st.err # NoError THEN st
    ELSE runOps(Tail(ops), exec(Head(ops), st))

-----------------------------------------------------------------------------
(* CV data.  has is the set of properties that are defined on the object; *)
(* a property outside has is undefined and holds the empty value here.    *)

noSkills == [shape |-> "list", cats |-> <<>>, items |-> <<>>]

blankCV ==
    [has |-> {}, nome |-> <<>>, subtitulo |-> <<>>, email |-> <<>>, telefone |-> <<>>,
     github |-> <<>>, linkedin |-> <<>>, objetivo |-> <<>>, resumo |-> <<>>,
     projetos |-> <<>>, habilidades |-> noSkills, formacao |-> <<>>,
     certificacoes |-> <<>>, experiencia |-> <<>>]

\* JavaScript truthiness of a string property: defined and not ''
truthy(cv, f) == f \in cv.has /\ cv[f] # <<>>

\* cv[f]?.length > 0 for a list property
nonEmptyList(cv, f) == f \in cv.has /\ Len(cv[f]) > 0

\* text || fallback
orElse(text, fallback) == IF text # <<>> THEN text ELSE fallback

\* a literal of the source: 'Cargo', 'Projeto', 'Link:', the fixed contact line
Placeholder == <<UpperA, LowerA>>

\* `• ${text}`
bulletOf(text) == <<Bullet, Space>> \o text

\* the separators ', ', ' • ' and ' | '
commaSep == <<Comma, Space>>
dotSep == <<Space, Bullet, Space>>
barSep == <<Space, UpperB, Space>>

-----------------------------------------------------------------------------
(* Section renderers of the v7 generator, as the calls they make *)

addTextBlock(lines, sec, kind) ==
    concat([i \in 1..Len(lines) |->
              <<Chk(CONFIG.LINE), Txt(sec, kind, lines[i]), Adv(CONFIG.LINE)>>])

sectionTitle(space, sec) ==
    <<Chk(space), Adv(CONFIG.SECTION), Txt(sec, "title", <<>>), Adv(CONFIG.HEADER)>>

addSection(sec, content) ==
    sectionTitle(40, sec)
    \o addTextBlock(wrapText(content, contentWidth), sec, "body")
    \o <<Adv(CONFIG.SECTION)>>

addExperienceEntry(exp) ==
    <<Chk(40), Txt("EXPERIENCE", "role", orElse(exp.cargo, Placeholder)), Adv(10),
      Txt("EXPERIENCE", "company",
          orElse(exp.empresa, Placeholder) \o barSep \o orElse(exp.periodo, Placeholder)),
      Adv(12)>>
    \o concat([t \in 1..Len(exp.tarefas) |->
                 <<Chk(10)>>
                 \o addTextBlock(wrapText(bulletOf(exp.tarefas[t]), contentWidth - 10),
                                 "EXPERIENCE", "task")])
    \o <<Adv(CONFIG.ITEM)>>

addExperience(experiences) ==
    sectionTitle(60, "EXPERIENCE")
    \o concat([e \in 1..Len(experiences) |-> addExperienceEntry(experiences[e])])

addProjectEntry(project) ==
    <<Chk(30)>>
    \o addTextBlock(wrapText(orElse(project.nome, Placeholder), contentWidth),
                    "PROJECTS", "name")
    \o (IF project.descricao # <<>>
        THEN addTextBlock(wrapText(project.descricao, contentWidth), "PROJECTS", "body")
        ELSE <<>>)
    \o (IF project.link # <<>>
        THEN <<Chk(10)>>
             \o addTextBlock(wrapText(Placeholder \o <<Space>> \o project.link,
                                      contentWidth), "PROJECTS", "link")
        ELSE <<>>)
    \o <<Adv(CONFIG.ITEM)>>

\* projects.slice(0, 6)
addProjects(projects) ==
    sectionTitle(50, "PROJECTS")
    \o concat([p \in 1..(IF Len(projects) < 6 THEN Len(projects) ELSE 6) |->
                 addProjectEntry(projects[p])])

addSkillCategory(cat) ==
    IF Len(cat.items) = 0 THEN <<>>
    ELSE <<Chk(20), Txt("SKILLS", "category", cat.name), Adv(10)>>
         \o addTextBlock(wrapText(join(cat.items, commaSep), contentWidth - 10),
                         "SKILLS", "body")
         \o <<Adv(6)>>

addSkills(skills) ==
    sectionTitle(40, "SKILLS")
    \o (IF skills.shape = "map"
        THEN concat([c \in 1..Len(skills.cats) |-> addSkillCategory(skills.cats[c])])
        ELSE addTextBlock(wrapText(join(skills.items, commaSep), contentWidth),
                          "SKILLS", "body"))
    \o <<Adv(CONFIG.SECTION)>>

addCertifications(certifications) ==
    sectionTitle(30, "CERTIFICATIONS")
    \o concat([c \in 1..Len(certifications) |->
                 <<Chk(10), Txt("CERTIFICATIONS", "bullet", bulletOf(certifications[c])),
                   Adv(10)>>])
    \o <<Adv(CONFIG.SECTION)>>

addEducationEntry(edu) ==
    <<Chk(30)>>
    \o addTextBlock(wrapText(edu.curso, contentWidth), "EDUCATION", "course")
    \o <<Txt("EDUCATION", "institution",
             edu.instituicao \o dotSep \o edu.periodo \o dotSep \o edu.status),
         Adv(10)>>
    \o (IF edu.descricao # <<>>
        THEN addTextBlock(wrapText(edu.descricao, contentWidth), "EDUCATION", "body")
        ELSE <<>>)
    \o <<Adv(6)>>

addEducation(education) ==
    sectionTitle(40, "EDUCATION")
    \o concat([e \in 1..Len(education) |-> addEducationEntry(education[e])])
    \o <<Adv(CONFIG.SECTION)>>

\* Object.keys(cvData.habilidades).length
skillKeys(skills) == IF skills.shape = "map" THEN Len(skills.cats) ELSE Len(skills.items)

addContent_experienceFirst(cv) ==
    (IF nonEmptyList(cv, "experiencia") THEN addExperience(cv.experiencia) ELSE <<>>)
    \o (IF truthy(cv, "objetivo") THEN addSection("OBJECTIVE", cv.objetivo) ELSE <<>>)
    \o (IF truthy(cv, "resumo") THEN addSection("SUMMARY", cv.resumo) ELSE <<>>)
    \o (IF nonEmptyList(cv, "projetos") THEN addProjects(cv.projetos) ELSE <<>>)
    \o (IF "habilidades" \in cv.has /\ skillKeys(cv.habilidades) > 0
        THEN addSkills(cv.habilidades) ELSE <<>>)
    \o (IF nonEmptyList(cv, "formacao") THEN addEducation(cv.formacao) ELSE <<>>)
    \o (IF nonEmptyList(cv, "certificacoes")
        THEN addCertifications(cv.certificacoes) ELSE <<>>)

addContent_certsAlways(cv) ==
    (IF truthy(cv, "objetivo") THEN addSection("OBJECTIVE", cv.objetivo) ELSE <<>>)
    \o (IF truthy(cv, "resumo") THEN addSection("SUMMARY", cv.resumo) ELSE <<>>)
    \o (IF nonEmptyList(cv, "projetos") THEN addProjects(cv.projetos) ELSE <<>>)
    \o (IF "habilidades" \in cv.has /\ skillKeys(cv.habilidades) > 0
        THEN addSkills(cv.habilidades) ELSE <<>>)
    \o (IF nonEmptyList(cv, "formacao") THEN addEducation(cv.formacao) ELSE <<>>)
    \o (IF "certificacoes" \in cv.has
        THEN addCertifications(cv.certificacoes) ELSE <<>>)
    \o (IF nonEmptyList(cv, "experiencia") THEN addExperience(cv.experiencia) ELSE <<>>)

addContent(cv) ==
    (IF truthy(cv, "objetivo") THEN addSection("OBJECTIVE", cv.objetivo) ELSE <<>>)
    \o (IF truthy(cv, "resumo") THEN addSection("SUMMARY", cv.resumo) ELSE <<>>)
    \o (IF nonEmptyList(cv, "projetos") THEN addProjects(cv.projetos) ELSE <<>>)
    \o (IF "habilidades" \in cv.has /\ skillKeys(cv.habilidades) > 0
        THEN addSkills(cv.habilidades) ELSE <<>>)
    \o (IF nonEmptyList(cv, "formacao") THEN addEducation(cv.formacao) ELSE <<>>)
    \o (IF nonEmptyList(cv, "certificacoes")
        THEN addCertifications(cv.certificacoes) ELSE <<>>)
    \o (IF nonEmptyList(cv, "experiencia") THEN addExperience(cv.experiencia) ELSE <<>>)

addContactInfo(cv) ==
    LET contacts ==
            (IF truthy(cv, "email") THEN <<cv.email>> ELSE <<>>)
            \o (IF truthy(cv, "github") THEN <<cv.github>> ELSE <<>>)
            \o (IF truthy(cv, "linkedin") THEN <<cv.linkedin>> ELSE <<>>)
            \o <<Placeholder>>
    IN  concat([c \in 1..Len(contacts) |->
                  <<Txt("HEADER", "contact", contacts[c]), Adv(10)>>])
        \o <<Adv(CONFIG.HEADER)>>

addSeparator == <<Txt("HEADER", "rule", <<>>), Adv(CONFIG.SECTION)>>

addHeader(cv) ==
    <<Txt("HEADER", "name", toUpperCase(cv.nome)), Adv(CONFIG.HEADER)>>
    \o (IF truthy(cv, "subtitulo")
        THEN LET lines == wrapText(cv.subtitulo, contentWidth)
             IN  concat([i \in 1..Len(lines) |->
                           <<Txt("HEADER", "subtitle", lines[i]), Adv(CONFIG.LINE)>>])
                 \o <<Adv(CONFIG.HEADER \div 2)>>
        ELSE <<>>)
    \o addContactInfo(cv)
    \o addSeparator

\* the loop of addFooter over the pages counted when it starts
addFooter(cv, pageCount) ==
    [i \in 1..pageCount |-> Foot(i, pageCount, cv.nome)]

-----------------------------------------------------------------------------
(* generateSummaryPDF of the v7 generator in part_003 *)

\* Array.prototype.slice(0, n)
sliceFirst(items, n) == IF Len(items) <= n THEN items ELSE SubSeq(items, 1, n)

\* the first 3 skills of each category, one category after the other; the keys
\* of a plain array are its indices, whose values are no arrays
selectedSkills(skills) ==
    IF skills.shape = "map"
    THEN concat([c \in 1..Len(skills.cats) |-> sliceFirst(skills.cats[c].items, 3)])
    ELSE <<>>

\* `${curso} - ${instituicao} (${periodo}, ${status})`
educationLine(edu) ==
    edu.curso \o <<Space, Dash, Space>> \o edu.instituicao \o <<Space, LParen>>
    \o edu.periodo \o commaSep \o edu.status \o <<RParen>>

\* `- ${cert}`
dashOf(text) == <<Dash, Space>> \o text

\* eduCertLines: the first education entry with its GPA line, then the
\* certifications that recentCerts selects under their heading
eduCertLines(cv) ==
    (IF nonEmptyList(cv, "formacao")
     THEN <<[kind |-> "education", text |-> educationLine(cv.formacao[1])]>>
          \o (IF cv.formacao[1].gpa # <<>>
              THEN <<[kind |-> "gpa", text |-> Placeholder \o cv.formacao[1].gpa]>>
              ELSE <<>>)
     ELSE <<>>)
    \o (IF nonEmptyList(cv, "certificacoes")
        THEN LET recentCerts == sliceFirst(cv.certificacoes, 3)
             IN  <<[kind |-> "heading", text |-> Placeholder]>>
                 \o [c \in 1..Len(recentCerts) |->
                        [kind |-> "cert", text |-> dashOf(recentCerts[c])]]
        ELSE <<>>)

\* the combined Education & Certifications section
addEduCert(cv) ==
    LET lines == eduCertLines(cv)
    IN  IF Len(lines) > 0
        THEN sectionTitle(40, "EDUCERT")
             \o concat([l \in 1..Len(lines) |->
                          addTextBlock(wrapText(lines[l].text, contentWidth),
                                       "EDUCERT", lines[l].kind)])
             \o <<Adv(CONFIG.SECTION)>>
        ELSE <<>>

\* the sections generateSummaryPDF renders between addHeader and addFooter
summaryContent(cv) ==
    (IF truthy(cv, "objetivo") THEN addSection("OBJECTIVE", cv.objetivo) ELSE <<>>)
    \o (IF truthy(cv, "resumo") THEN addSection("SUMMARY", cv.resumo) ELSE <<>>)
    \o (IF nonEmptyList(cv, "projetos")
        THEN addProjects(sliceFirst(cv.projetos, 3)) ELSE <<>>)
    \o (IF "habilidades" \in cv.has /\ Len(selectedSkills(cv.habilidades)) > 0
        THEN addSection("SKILLS", join(selectedSkills(cv.habilidades), commaSep))
        ELSE <<>>)
    \o addEduCert(cv)

-----------------------------------------------------------------------------
(* Section renderers of the deployed generator, as the calls they make *)

addSectionHeader(sec) == <<Txt(sec, "title", <<>>), Adv(DCONFIG.afterSection)>>

addSectionSpacing == <<Adv(DCONFIG.betweenItems)>>

\* addSectionContent and addWrappedText are the same loop
addWrappedText(text, sec, kind) ==
    LET wrappedText == wrapTextDeployed(text, DCONFIG.maxWidth)
    IN  concat([i \in 1..Len(wrappedText) |->
                  <<Chk(DCONFIG.lineHeight), Txt(sec, kind, wrappedText[i]),
                    Adv(DCONFIG.lineHeight)>>])

addATSSection(sec, content) ==
    <<Chk(40)>> \o addSectionHeader(sec) \o addWrappedText(content, sec, "body")
    \o addSectionSpacing

\* addATSSection with an array as content: text.split is not a function
addATSSectionOfArray(sec) ==
    <<Chk(40)>> \o addSectionHeader(sec) \o <<Raise(TypeError)>>

addBulletPoint(text) ==
    LET wrappedBullet ==
            wrapTextDeployed(bulletOf(text), DCONFIG.maxWidth - DCONFIG.BULLET_INDENT)
    IN  <<Chk(DCONFIG.lineHeight)>>
        \o concat([i \in 1..Len(wrappedBullet) |->
                     <<Txt("EXPERIENCE", "task", wrappedBullet[i]),
                       Adv(DCONFIG.lineHeight)>>])

addSingleExperience(experience) ==
    <<Chk(30),
      Txt("EXPERIENCE", "role",
          orElse(experience.cargo, Placeholder) \o barSep
          \o orElse(experience.empresa, Placeholder) \o barSep
          \o orElse(experience.periodo, Placeholder)),
      Adv(DCONFIG.lineHeight)>>
    \o concat([t \in 1..Len(experience.tarefas) |-> addBulletPoint(experience.tarefas[t])])
    \o addSectionSpacing

addExperienceSection(experiences) ==
    <<Chk(40)>> \o addSectionHeader("EXPERIENCE")
    \o concat([e \in 1..Len(experiences) |-> addSingleExperience(experiences[e])])

addSkillsSection(skills) ==
    <<Chk(30)>> \o addSectionHeader("SKILLS")
    \o addWrappedText(join(skills, commaSep), "SKILLS", "body")
    \o addSectionSpacing

addSingleProject(project) ==
    <<Chk(20), Txt("PROJECTS", "name", orElse(project.nome, Placeholder)),
      Adv(DCONFIG.lineHeight)>>
    \o (IF project.descricao # <<>>
        THEN addWrappedText(project.descricao, "PROJECTS", "body") ELSE <<>>)
    \o (IF project.link # <<>>
        THEN <<Txt("PROJECTS", "link", Placeholder \o <<Space>> \o project.link),
               Adv(DCONFIG.lineHeight)>>
        ELSE <<>>)
    \o addSectionSpacing

addProjectsSection(projects) ==
    <<Chk(30)>> \o addSectionHeader("PROJECTS")
    \o concat([p \in 1..Len(projects) |-> addSingleProject(projects[p])])

addCertificationsSection(certifications) ==
    <<Chk(30)>> \o addSectionHeader("CERTIFICATIONS")
    \o concat([c \in 1..Len(certifications) |->
                 <<Chk(DCONFIG.lineHeight),
                   Txt("CERTIFICATIONS", "bullet", bulletOf(certifications[c])),
                   Adv(DCONFIG.lineHeight)>>])
    \o addSectionSpacing

\* summary, experience, education, skills, projects, certifications.
\* cvData.formacao is an array of entries, which is truthy even when empty;
\* cvData.habilidades.length is undefined for a category mapping.
generateATSContent(cv) ==
    (IF truthy(cv, "resumo") THEN addATSSection("SUMMARY", cv.resumo) ELSE <<>>)
    \o (IF nonEmptyList(cv, "experiencia")
        THEN addExperienceSection(cv.experiencia) ELSE <<>>)
    \o (IF "formacao" \in cv.has THEN addATSSectionOfArray("EDUCATION") ELSE <<>>)
    \o (IF "habilidades" \in cv.has /\ cv.habilidades.shape = "list"
           /\ Len(cv.habilidades.items) > 0
        THEN addSkillsSection(cv.habilidades.items) ELSE <<>>)
    \o (IF nonEmptyList(cv, "projetos") THEN addProjectsSection(cv.projetos) ELSE <<>>)
    \o (IF nonEmptyList(cv, "certificacoes")
        THEN addCertificationsSection(cv.certificacoes) ELSE <<>>)

\* contactParts.join(' | ')
buildContactInfo(cv) ==
    join((IF truthy(cv, "email") THEN <<cv.email>> ELSE <<>>)
         \o (IF truthy(cv, "telefone") THEN <<cv.telefone>> ELSE <<>>)
         \o (IF truthy(cv, "linkedin") THEN <<cv.linkedin>> ELSE <<>>)
         \o (IF truthy(cv, "github") THEN <<cv.github>> ELSE <<>>),
         barSep)

generateATSHeader(cv) ==
    <<Txt("HEADER", "name", toUpperCase(orElse(cv.nome, Placeholder))),
      Adv(DCONFIG.afterName)>>
    \o (IF buildContactInfo(cv) # <<>>
        THEN <<Txt("HEADER", "contact", buildContactInfo(cv)), Adv(DCONFIG.afterContact)>>
        ELSE <<>>)

-----------------------------------------------------------------------------
(* The stages of generatePDF *)

\* the calls inside the try block, in program order
Stages ==
    IF variant # "deployed" THEN <<"init", "header", "content", "footer", "save">>
    ELSE <<"init", "header", "content", "save">>

stageAfter(stage) ==
    LET i == CHOOSE k \in 1..Len(Stages) : Stages[k] = stage
    IN  Stages[i + 1]

\* the calls a layout stage makes when it starts
stageOps(stage, cv, doc) ==
    CASE stage = "header" ->
             IF variant # "deployed" THEN addHeader(cv) ELSE generateATSHeader(cv)
      [] stage = "content" ->
             CASE variant = "v7" -> addContent(cv)
               [] variant = "summary" -> summaryContent(cv)
               [] OTHER -> generateATSContent(cv)
      [] stage = "footer" -> addFooter(cv, doc.pages)
      [] OTHER -> <<>>

LayoutStages == {"header", "content", "footer"}

-----------------------------------------------------------------------------
(* Inputs: the CV objects handed to generatePDF *)

nameText == <<LowerA, LowerB>>
shortText == <<LowerA, Space, LowerB>>

RECURSIVE numeral(_)
numeral(i) ==
    IF i < 2 THEN <<LowerA + i>> ELSE numeral(i \div 2) \o <<LowerA + (i % 2)>>

\* the description is wider than a line
sampleProject ==
    [nome |-> nameText, descricao |-> <<Wide, Space, Wide>>, link |-> <<LowerB>>]
sampleEducation ==
    [curso |-> shortText, instituicao |-> <<UpperA>>, periodo |-> <<LowerA>>,
     status |-> <<LowerB>>, descricao |-> <<>>, gpa |-> <<LowerB>>]
sampleExperience ==
    [cargo |-> <<UpperA>>, empresa |-> <<>>, periodo |-> <<LowerB>>,
     tarefas |-> <<numeral(1), numeral(2)>>]

Sections6 == {"objetivo", "resumo", "projetos", "habilidades", "formacao", "experiencia"}

\* the sections that carry content: at most two of the six
FullSets == {full \in SUBSET Sections6 : Cardinality(full) <= 2}

\* what the sections without content look like:
\* undefined, empty ('' / [] / {}), or empty with a category mapping whose
\* only category is empty
EmptyKinds == {"absent", "empty", "hollow"}

CertKinds == {"absent", "empty", "one", "many"}

skillsOf(full, kind, rich) ==
    IF "habilidades" \in full
    THEN IF kind = "empty"
         THEN [shape |-> "list", cats |-> <<>>, items |-> <<<<LowerA>>, <<LowerB>>>>]
         ELSE [shape |-> "map",
               cats |-> <<[name |-> "linguagens", items |-> <<>>],
                          [name |-> "softSkills", items |-> <<<<LowerA>>, <<LowerB>>>>]>>,
               items |-> <<>>]
    ELSE IF kind = "hollow"
    THEN [shape |-> "map", cats |-> <<[name |-> "linguagens", items |-> <<>>]>>,
          items |-> <<>>]
    ELSE IF kind = "empty" /\ ~rich
    THEN [shape |-> "map", cats |-> <<>>, items |-> <<>>]
    ELSE noSkills

cvOf(full, kind, cert, rich) ==
    [has |-> {"nome"} \cup full
             \cup (IF kind = "absent" THEN {} ELSE Sections6)
             \cup (IF cert = "absent" THEN {} ELSE {"certificacoes"})
             \cup (IF rich THEN {"subtitulo", "email", "telefone", "linkedin"} ELSE {}),
     nome |-> nameText,
     subtitulo |-> IF rich THEN shortText ELSE <<>>,
     email |-> IF rich THEN <<LowerA>> ELSE <<>>,
     telefone |-> <<>>,
     github |-> <<>>,
     linkedin |-> IF rich THEN <<LowerB>> ELSE <<>>,
     objetivo |-> IF "objetivo" \in full THEN shortText ELSE <<>>,
     resumo |-> IF "resumo" \in full THEN shortText ELSE <<>>,
     projetos |-> IF "projetos" \in full THEN <<sampleProject>> ELSE <<>>,
     habilidades |-> skillsOf(full, kind, rich),
     formacao |-> IF "formacao" \in full THEN <<sampleEducation>> ELSE <<>>,
     certificacoes |->
         CASE cert = "one" -> <<numeral(0)>>
           [] cert = "many" -> [i \in 1..BigList |-> numeral(i)]
           [] OTHER -> <<>>,
     experiencia |-> IF "experiencia" \in full THEN <<sampleExperience>> ELSE <<>>]

\* one experience entry with more one-line tasks than a page has room for
taskCV ==
    [cvOf({"experiencia"}, "absent", "absent", FALSE) EXCEPT
        !.experiencia =
            <<[sampleExperience EXCEPT !.tarefas = [i \in 1..ManyTasks |-> numeral(i)]]>>]

\* more projects than the first six, with and without description and link
projectsCV ==
    [cvOf({"projetos"}, "absent", "absent", FALSE) EXCEPT
        !.projetos =
            [i \in 1..ManyProjects |->
                [nome |-> numeral(i),
                 descricao |-> IF i % 2 = 1 THEN <<Wide, Space, Wide>> ELSE <<>>,
                 link |-> IF i % 3 = 0 THEN <<>> ELSE <<LowerB>>]]]

\* n certifications followed by one experience entry: the experience section
\* starts at a cursor position that depends on n
certsCV(n) ==
    [cvOf({"experiencia"}, "absent", "one", FALSE) EXCEPT
        !.certificacoes = [i \in 1..n |-> numeral(i)]]

\* a subtitle of two unbroken words that wrapText splits into more lines than
\* a page has room for, above all four contact lines
subtitleCV ==
    [cvOf({}, "absent", "absent", TRUE) EXCEPT
        !.has = @ \cup {"github"},
        !.github = <<LowerA>>,
        !.subtitulo = [i \in 1..(2 * LongWord + 1) |->
                          IF i = LongWord + 1 THEN Space ELSE Wide]]

\* nome undefined, and nome ''
InvalidCVs == {blankCV, [blankCV EXCEPT !.has = {"nome", "resumo"}, !.resumo = shortText]}

ValidCVs ==
    {cvOf(full, kind, cert, rich) :
        full \in FullSets, kind \in EmptyKinds, cert \in CertKinds, rich \in BOOLEAN}
    \cup {taskCV, projectsCV, subtitleCV}
    \cup {certsCV(n) : n \in 1..BigList}

\* the CVs of the calls that follow the first one
RepeatCVs ==
    InvalidCVs
    \cup {cvOf({"resumo"}, "absent", "empty", FALSE),
          cvOf({"resumo", "experiencia"}, "hollow", "one", TRUE)}

CVInputs == IF exports = 0 THEN ValidCVs \cup InvalidCVs ELSE RepeatCVs

Languages == {"pt", "en"}

Texts == UNION {[1..n -> {Space, LowerA, LowerB}] : n \in 0..MaxTextLen}

NoWrap == [by |-> "none", lines |-> <<>>]
\* no detection is modelled: the readiness flag is set by LibraryReady
NoLib == [attempts |-> 0, checks |-> 0, timer |-> FALSE, present |-> FALSE,
          script |-> "none"]
NoLoop == [phase |-> "idle", words |-> <<>>, i |-> 0, lines |-> <<>>,
           currentLine |-> <<>>, remainingWord |-> <<>>]
IdleWrapIn == [text |-> <<>>, maxWidth |-> 0]

\* a data object as fetched: its language and the request that produced it
NoData == [lang |-> "none", id |-> 0]
\* the DataManager / CVApplication pair is not modelled
NoDm == [cvData |-> NoData, currentLanguage |-> "pt", isLoading |-> FALSE,
         dataCache |-> [l \in Languages |-> NoData], abortController |-> 0,
         aborted |-> {}, loads |-> <<>>,
         ret |-> NoData, started |-> FALSE, appLanguage |-> "pt",
         shown |-> "none"]
\* the single-file CVApp is not modelled
NoCVApp == [data |-> "none", lang |-> "pt", active |-> "none", saved |-> "none",
            switched |-> FALSE, loads |-> <<>>]
\* the export button is not modelled
NoButton == [textContent |-> "none", disabled |-> FALSE, timers |-> <<>>,
             triggers |-> 0]

-----------------------------------------------------------------------------
(* The generator *)

\* what the caller shows when generatePDF throws.  CVApp.exportPDF (v7 site)
\* catches and calls showError.  CVApplication.handlePDFExport (deployed site)
\* rethrows: started by a click, handleActionClick catches and calls
\* uiManager.showError; started by the keyboard shortcut, nobody catches.
callerCatch ==
    IF variant # "deployed" THEN {<<"error">>} ELSE {<<"error">>, <<>>}

validName_any(cv) == TRUE

\* validateCVData / !cvData?.nome: v7 rejects a missing or empty nome, the
\* deployed generator also one that is blank after trim()
validName(cv) ==
    /\ truthy(cv, "nome")
    /\ (variant = "deployed" => \E i \in 1..Len(cv.nome) : cv.nome[i] # Space)

\* one of the availability checks finds the library
LibraryReady ==
    /\ pc = "idle"
    /\ ~isReady
    /\ isReady' = TRUE
    /\ UNCHANGED <<variant, pc, cvData, language, pdf, currentY, queue, stageLog,
                   saved, notes, thrown, err, exports, appNotes, history, wrapIn,
                   wrapOut, loop, lib, dm, cvapp, button>>

\* generatePDF while the library is not ready: throws before the try block
GenerateNotReady(cv, lang) ==
    /\ pc = "idle"
    /\ exports < MaxExports
    /\ ~isReady
    /\ cvData' = cv
    /\ thrown' = notReadyError
    /\ history' = Append(history, notReadyError)
    /\ exports' = exports + 1
    /\ stageLog' = <<>> /\ saved' = <<>> /\ notes' = <<>> /\ err' = NoError
    /\ appNotes' \in callerCatch
    /\ UNCHANGED <<variant, isReady, pc, language, pdf, currentY, queue, wrapIn,
                   wrapOut, loop, lib, dm, cvapp, button>>

\* generatePDF with an invalid nome: throws before the try block
GenerateInvalid(cv, lang) ==
    /\ pc = "idle"
    /\ exports < MaxExports
    /\ isReady
    /\ ~validName(cv)
    /\ cvData' = cv
    /\ thrown' = invalidDataError
    /\ history' = Append(history, invalidDataError)
    /\ exports' = exports + 1
    /\ stageLog' = <<>> /\ saved' = <<>> /\ notes' = <<>> /\ err' = NoError
    /\ appNotes' \in callerCatch
    /\ UNCHANGED <<variant, isReady, pc, language, pdf, currentY, queue, wrapIn,
                   wrapOut, loop, lib, dm, cvapp, button>>

\* generatePDF entering the try block
GenerateStart(cv, lang) ==
    /\ pc = "idle"
    /\ exports < MaxExports
    /\ isReady
    /\ validName(cv)
    /\ cvData' = cv
    /\ language' = lang
    /\ thrown' = NoError
    /\ exports' = exports + 1
    /\ stageLog' = <<>> /\ saved' = <<>> /\ notes' = <<>> /\ err' = NoError
    /\ pc' = Stages[1]
    /\ queue' = <<>>
    /\ appNotes' = <<>>
    /\ UNCHANGED <<variant, isReady, pdf, currentY, history, wrapIn,
                   wrapOut, loop, lib, dm, cvapp, button>>

InitDocument_keepCursor ==
    /\ pc = "init"
    /\ pdf' = newPdf
    /\ currentY' = (IF pdf.open THEN currentY ELSE topMargin)
    /\ stageLog' = Append(stageLog, "init")
    /\ pc' = stageAfter("init")
    /\ queue' = stageOps(stageAfter("init"), cvData, newPdf)
    /\ UNCHANGED <<variant, isReady, cvData, language, saved, notes, thrown, err,
                   exports, appNotes, history, wrapIn,
                   wrapOut, loop, lib, dm, cvapp, button>>

\* initDocument / initializeDocument
InitDocument ==
    /\ pc = "init"
    /\ pdf' = newPdf
    /\ currentY' = topMargin
    /\ stageLog' = Append(stageLog, "init")
    /\ pc' = stageAfter("init")
    /\ queue' = stageOps(stageAfter("init"), cvData, newPdf)
    /\ UNCHANGED <<variant, isReady, cvData, language, saved, notes, thrown, err,
                   exports, appNotes, history, wrapIn,
                   wrapOut, loop, lib, dm, cvapp, button>>

\* the next call of the running layout stage
Step(kind) ==
    /\ pc \in LayoutStages
    /\ queue # <<>>
    /\ Head(queue).op = kind
    /\ LET st == exec(Head(queue), [pdf |-> pdf, y |-> currentY, err |-> NoError])
       IN  /\ pdf' = st.pdf
           /\ currentY' = st.y
    /\ queue' = Tail(queue)
    /\ UNCHANGED <<variant, isReady, pc, cvData, language, stageLog, saved, notes,
                   thrown, err, exports, appNotes, history, wrapIn,
                   wrapOut, loop, lib, dm, cvapp, button>>

CheckPageBreakStep == Step("check")
AdvanceStep == Step("adv")
DrawStep == Step("text")
FooterStep == Step("footer")

\* a call of the running stage throws on malformed data
RaiseStep ==
    /\ pc \in LayoutStages
    /\ queue # <<>>
    /\ Head(queue).op = "raise"
    /\ err' = Head(queue).kind
    /\ pc' = "catch"
    /\ queue' = <<>>
    /\ UNCHANGED <<variant, isReady, cvData, language, pdf, currentY, stageLog, saved,
                   notes, thrown, exports, appNotes, history, wrapIn,
                   wrapOut, loop, lib, dm, cvapp, button>>

\* the running layout stage returns
StageEnd ==
    /\ pc \in LayoutStages
    /\ queue = <<>>
    /\ stageLog' = Append(stageLog, pc)
    /\ pc' = stageAfter(pc)
    /\ queue' = stageOps(stageAfter(pc), cvData, pdf)
    /\ UNCHANGED <<variant, isReady, cvData, language, pdf, currentY, saved, notes,
                   thrown, err, exports, appNotes, history, wrapIn,
                   wrapOut, loop, lib, dm, cvapp, button>>

\* a call into the rendering surface throws: the constructor in init, the last
\* call of a layout stage, pdf.save in save
SurfaceThrows ==
    /\ pc \in {"init", "save"} \cup LayoutStages
    /\ pc \in LayoutStages => queue = <<>>
    /\ err' = surfaceError(pc)
    /\ pc' = "catch"
    /\ queue' = <<>>
    /\ UNCHANGED <<variant, isReady, cvData, language, pdf, currentY, stageLog, saved,
                   notes, thrown, exports, appNotes, history, wrapIn,
                   wrapOut, loop, lib, dm, cvapp, button>>

\* savePDF: pdf.save(filename)
SavePDF ==
    /\ pc = "save"
    /\ saved' = Append(saved, [name |-> cvData.nome, language |-> language,
                               pages |-> pdf.pages])
    /\ stageLog' = Append(stageLog, "save")
    /\ pc' = "success"
    /\ UNCHANGED <<variant, isReady, cvData, language, pdf, currentY, queue, notes,
                   thrown, err, exports, appNotes, history, wrapIn,
                   wrapOut, loop, lib, dm, cvapp, button>>

\* showSuccess, then generatePDF returns
ShowSuccess ==
    /\ pc = "success"
    /\ notes' = Append(notes, "success")
    /\ history' = Append(history, NoError)
    /\ pc' = "idle"
    /\ UNCHANGED <<variant, isReady, cvData, language, pdf, currentY, queue, stageLog,
                   saved, thrown, err, exports, appNotes, wrapIn,
                   wrapOut, loop, lib, dm, cvapp, button>>

Catch_swallow ==
    /\ pc = "catch"
    /\ notes' = Append(notes, "error")
    /\ thrown' = NoError
    /\ history' = Append(history, NoError)
    /\ pc' = "idle"
    /\ UNCHANGED <<variant, isReady, cvData, language, pdf, currentY, queue, stageLog,
                   saved, err, exports, appNotes, wrapIn,
                   wrapOut, loop, lib, dm, cvapp, button>>

\* the catch block: showError, then throw error
Catch ==
    /\ pc = "catch"
    /\ notes' = Append(notes, "error")
    /\ thrown' = err
    /\ history' = Append(history, err)
    /\ appNotes' \in callerCatch
    /\ pc' = "idle"
    /\ UNCHANGED <<variant, isReady, cvData, language, pdf, currentY, queue, stageLog,
                   saved, err, exports, wrapIn,
                   wrapOut, loop, lib, dm, cvapp, button>>

Init ==
    /\ variant \in {"v7", "deployed", "summary"}
    /\ isReady = FALSE
    /\ pc = "idle"
    /\ cvData = blankCV
    /\ language = "pt"
    /\ pdf = NoPdf
    /\ currentY = IF variant # "deployed" THEN 0 ELSE DCONFIG.margin
    /\ queue = <<>>
    /\ stageLog = <<>>
    /\ saved = <<>>
    /\ notes = <<>>
    /\ thrown = NoError
    /\ err = NoError
    /\ exports = 0
    /\ appNotes = <<>>
    /\ history = <<>>
    /\ wrapIn = IdleWrapIn
    /\ wrapOut = NoWrap
    /\ loop = NoLoop
    /\ lib = NoLib
    /\ dm = NoDm
    /\ cvapp = NoCVApp
    /\ button = NoButton

Next ==
    \/ LibraryReady
    \/ \E cv \in CVInputs, lang \in Languages : GenerateNotReady(cv, lang)
    \/ \E cv \in CVInputs, lang \in Languages : GenerateInvalid(cv, lang)
    \/ \E cv \in CVInputs, lang \in Languages : GenerateStart(cv, lang)
    \/ InitDocument
    \/ CheckPageBreakStep
    \/ AdvanceStep
    \/ DrawStep
    \/ FooterStep
    \/ RaiseStep
    \/ StageEnd
    \/ SurfaceThrows
    \/ SavePDF
    \/ ShowSuccess
    \/ Catch

Spec == Init /\ [][Next]_vars

-----------------------------------------------------------------------------
(* Stand-alone calls of wrapText *)

WrapV7 ==
    /\ wrapOut = NoWrap
    /\ wrapOut' = [by |-> "v7", lines |-> wrapText(wrapIn.text, wrapIn.maxWidth)]
    /\ UNCHANGED <<genVars, wrapIn, loop, lib, dm, cvapp, button>>

WrapDeployed ==
    /\ wrapOut = NoWrap
    /\ wrapOut' = [by |-> "deployed",
                   lines |-> wrapTextDeployed(wrapIn.text, wrapIn.maxWidth)]
    /\ UNCHANGED <<genVars, wrapIn, loop, lib, dm, cvapp, button>>

InitWrap ==
    /\ variant = "v7"
    /\ isReady = FALSE
    /\ pc = "idle"
    /\ cvData = blankCV
    /\ language = "pt"
    /\ pdf = NoPdf
    /\ currentY = 0
    /\ queue = <<>>
    /\ stageLog = <<>>
    /\ saved = <<>>
    /\ notes = <<>>
    /\ thrown = NoError
    /\ err = NoError
    /\ exports = 0
    /\ appNotes = <<>>
    /\ history = <<>>
    /\ wrapIn \in [text : Texts, maxWidth : 0..MaxWrapWidth]
    /\ wrapOut = NoWrap
    /\ loop = NoLoop
    /\ lib = NoLib
    /\ dm = NoDm
    /\ cvapp = NoCVApp
    /\ button = NoButton

NextWrap == WrapV7 \/ WrapDeployed

SpecWrap == InitWrap /\ [][NextWrap]_vars

-----------------------------------------------------------------------------
(* Library detection: initLibrary of the v7 generator, checkLibraryAvailability *)
(* and loadLibraryDynamically of the deployed one.  lib.timer tells that a     *)
(* check is scheduled, lib.present that jsPDF is defined on the page,          *)
(* lib.checks counts the availability checks made.                             *)

maxAttempts == 50
MAX_LOAD_ATTEMPTS == 50

limitReached_late(attempts) ==
    attempts >= (IF variant = "v7" THEN maxAttempts ELSE MAX_LOAD_ATTEMPTS) + 2

\* attempts >= maxAttempts
limitReached(attempts) ==
    attempts >= (IF variant = "v7" THEN maxAttempts ELSE MAX_LOAD_ATTEMPTS)

\* the page's own script tag finishes loading jsPDF
LibraryArrives ==
    /\ ~lib.present
    /\ lib' = [lib EXCEPT !.present = TRUE]
    /\ UNCHANGED <<genVars, wrapIn, wrapOut, loop, dm, cvapp, button>>

\* v7 checkLibrary: called by initLibrary, then by the timeouts it sets
CheckLibrary ==
    /\ variant = "v7"
    /\ lib.timer
    /\ IF lib.present
       THEN /\ isReady' = TRUE
            /\ lib' = [lib EXCEPT !.checks = @ + 1, !.timer = FALSE]
       ELSE /\ isReady' = isReady
            /\ lib' = [lib EXCEPT !.checks = @ + 1, !.attempts = @ + 1,
                                  !.timer = ~limitReached(lib.attempts + 1)]
    /\ UNCHANGED <<variant, pc, cvData, language, pdf, currentY, queue, stageLog,
                   saved, notes, thrown, err, exports, appNotes, history,
                   wrapIn, wrapOut, loop, dm, cvapp, button>>

\* deployed checkLibraryAvailability: one tick of the interval
IntervalTick ==
    /\ variant = "deployed"
    /\ lib.timer
    /\ IF lib.present
       THEN /\ isReady' = TRUE
            /\ lib' = [lib EXCEPT !.checks = @ + 1, !.attempts = @ + 1,
                                  !.timer = FALSE]
       ELSE IF limitReached(lib.attempts + 1)
       THEN /\ isReady' = FALSE
            /\ lib' = [lib EXCEPT !.checks = @ + 1, !.attempts = @ + 1,
                                  !.timer = FALSE, !.script = "loading"]
       ELSE /\ isReady' = isReady
            /\ lib' = [lib EXCEPT !.checks = @ + 1, !.attempts = @ + 1]
    /\ UNCHANGED <<variant, pc, cvData, language, pdf, currentY, queue, stageLog,
                   saved, notes, thrown, err, exports, appNotes, history,
                   wrapIn, wrapOut, loop, dm, cvapp, button>>

\* script.onload of the dynamically added script
ScriptLoad ==
    /\ lib.script = "loading"
    /\ isReady' = TRUE
    /\ lib' = [lib EXCEPT !.script = "loaded", !.present = TRUE]
    /\ UNCHANGED <<variant, pc, cvData, language, pdf, currentY, queue, stageLog,
                   saved, notes, thrown, err, exports, appNotes, history,
                   wrapIn, wrapOut, loop, dm, cvapp, button>>

\* script.onerror of the dynamically added script
ScriptError ==
    /\ lib.script = "loading"
    /\ lib' = [lib EXCEPT !.script = "failed"]
    /\ UNCHANGED <<genVars, wrapIn, wrapOut, loop, dm, cvapp, button>>

\* the state the constructor leaves: the first check is due
InitLib ==
    /\ variant \in {"v7", "deployed"}
    /\ isReady = FALSE
    /\ pc = "idle"
    /\ cvData = blankCV
    /\ language = "pt"
    /\ pdf = NoPdf
    /\ currentY = (IF variant = "v7" THEN 0 ELSE DCONFIG.margin)
    /\ queue = <<>>
    /\ stageLog = <<>>
    /\ saved = <<>>
    /\ notes = <<>>
    /\ thrown = NoError
    /\ err = NoError
    /\ exports = 0
    /\ appNotes = <<>>
    /\ history = <<>>
    /\ wrapIn = IdleWrapIn
    /\ wrapOut = NoWrap
    /\ loop = NoLoop
    /\ lib \in [attempts : {0}, checks : {0}, timer : {TRUE}, present : BOOLEAN,
                script : {"none"}]
    /\ dm = NoDm
    /\ cvapp = NoCVApp
    /\ button = NoButton

NextLib == LibraryArrives \/ CheckLibrary \/ IntervalTick \/ ScriptLoad \/ ScriptError

SpecLib == InitLib /\ [][NextLib]_vars

-----------------------------------------------------------------------------
(* wrapText of the v7 generator, run statement by statement *)

\* the two early returns, or the split into words
LoopEnter ==
    /\ loop.phase = "start"
    /\ loop' =
          IF wrapIn.text = <<>>
          THEN [loop EXCEPT !.phase = "done", !.lines = << <<>> >>]
          ELSE IF getTextWidth(wrapIn.text) <= wrapIn.maxWidth
          THEN [loop EXCEPT !.phase = "done", !.lines = <<wrapIn.text>>]
          ELSE [loop EXCEPT !.phase = "words", !.words = split(wrapIn.text), !.i = 1]
    /\ UNCHANGED <<genVars, wrapIn, wrapOut, lib, dm, cvapp, button>>

\* one iteration of the for loop over the words, up to the while loop
LoopWord ==
    /\ loop.phase = "words"
    /\ loop.i <= Len(loop.words)
    /\ LET word == loop.words[loop.i]
           testLine == testLineOf(loop.currentLine, word)
           flushed == IF loop.currentLine # <<>>
                      THEN Append(loop.lines, loop.currentLine) ELSE loop.lines
       IN  loop' =
             IF getTextWidth(word) > wrapIn.maxWidth
             THEN [loop EXCEPT !.phase = "split", !.lines = flushed,
                               !.currentLine = <<>>, !.remainingWord = word]
             ELSE IF getTextWidth(testLine) <= wrapIn.maxWidth
             THEN [loop EXCEPT !.currentLine = testLine, !.i = @ + 1]
             ELSE [loop EXCEPT !.lines = flushed, !.currentLine = word, !.i = @ + 1]
    /\ UNCHANGED <<genVars, wrapIn, wrapOut, lib, dm, cvapp, button>>

\* one iteration of the while loop: a chunk is pushed and cut off the word
LoopSplit ==
    /\ loop.phase = "split"
    /\ Len(loop.remainingWord) > 0
    /\ LET chunk == chunkOf(loop.remainingWord, wrapIn.maxWidth)
       IN  loop' = [loop EXCEPT !.lines = Append(@, chunk),
                                !.remainingWord = substringFrom(@, Len(chunk))]
    /\ UNCHANGED <<genVars, wrapIn, wrapOut, lib, dm, cvapp, button>>

\* the while loop ends: on to the next word
LoopSplitEnd ==
    /\ loop.phase = "split"
    /\ Len(loop.remainingWord) = 0
    /\ loop' = [loop EXCEPT !.phase = "words", !.i = @ + 1]
    /\ UNCHANGED <<genVars, wrapIn, wrapOut, lib, dm, cvapp, button>>

\* the for loop ends: the trailing line is pushed and the lines are returned
LoopReturn ==
    /\ loop.phase = "words"
    /\ loop.i > Len(loop.words)
    /\ LET lines == IF loop.currentLine # <<>>
                    THEN Append(loop.lines, loop.currentLine) ELSE loop.lines
       IN  loop' = [loop EXCEPT !.phase = "done",
                                !.lines = IF Len(lines) > 0 THEN lines ELSE << <<>> >>]
    /\ UNCHANGED <<genVars, wrapIn, wrapOut, lib, dm, cvapp, button>>

InitLoop ==
    /\ variant = "v7"
    /\ isReady = FALSE
    /\ pc = "idle"
    /\ cvData = blankCV
    /\ language = "pt"
    /\ pdf = NoPdf
    /\ currentY = 0
    /\ queue = <<>>
    /\ stageLog = <<>>
    /\ saved = <<>>
    /\ notes = <<>>
    /\ thrown = NoError
    /\ err = NoError
    /\ exports = 0
    /\ appNotes = <<>>
    /\ history = <<>>
    /\ wrapIn \in [text : Texts, maxWidth : 0..MaxWrapWidth]
    /\ wrapOut = NoWrap
    /\ loop = [NoLoop EXCEPT !.phase = "start"]
    /\ lib = NoLib
    /\ dm = NoDm
    /\ cvapp = NoCVApp
    /\ button = NoButton

NextLoop == LoopEnter \/ LoopWord \/ LoopSplit \/ LoopSplitEnd \/ LoopReturn

\* wrapText is synchronous code: a statement that can run does run
SpecLoop == InitLoop /\ [][NextLoop]_vars /\ WF_vars(NextLoop)

-----------------------------------------------------------------------------
(* Vocabulary of the claims about wrapText *)

\* maxWidth is at least the width of the widest single character of the text
widestGlyphFits(text, maxWidth) ==
    \A i \in 1..Len(text) : GlyphWidth(text[i]) <= maxWidth

allLinesFit(lines, maxWidth) ==
    \A i \in 1..Len(lines) : getTextWidth(lines[i]) <= maxWidth

\* some word of the text is wider than maxWidth
hasOverWideWord(text, maxWidth) ==
    \E w \in 1..Len(split(text)) : getTextWidth(split(text)[w]) > maxWidth

\* the v7 wrapText reaches its character-level split
forcedSplit(text, maxWidth) ==
    /\ text # <<>>
    /\ getTextWidth(text) > maxWidth
    /\ hasOverWideWord(text, maxWidth)

hasSpace(text) == \E i \in 1..Len(text) : text[i] = Space

RECURSIVE withoutSpaces(_)
withoutSpaces(text) ==
    IF text = <<>> THEN <<>>
    ELSE IF Head(text) = Space THEN withoutSpaces(Tail(text))
    ELSE <<Head(text)>> \o withoutSpaces(Tail(text))

RECURSIVE nonEmptyWords(_)
nonEmptyWords(words) ==
    IF words = <<>> THEN <<>>
    ELSE IF Head(words) = <<>> THEN nonEmptyWords(Tail(words))
    ELSE <<Head(words)>> \o nonEmptyWords(Tail(words))

\* runs of spaces collapsed, leading and trailing spaces removed
normalized(text) == join(nonEmptyWords(split(text)), <<Space>>)

wrapped == wrapOut.by # "none"

\* C1: v7 wrapText: when maxWidth is at least the width of the widest glyph of
\* the text, every returned line is at most maxWidth wide, both the lines built
\* by word accumulation and the chunks of the character-level split.
C1_v7LinesFit ==
    (wrapOut.by = "v7" /\ widestGlyphFits(wrapIn.text, wrapIn.maxWidth))
        => allLinesFit(wrapOut.lines, wrapIn.maxWidth)

\* a v7 result with a forced split and a line accumulated from two words
C1_witness ==
    /\ wrapOut.by = "v7"
    /\ widestGlyphFits(wrapIn.text, wrapIn.maxWidth)
    /\ forcedSplit(wrapIn.text, wrapIn.maxWidth)
    /\ \E i \in 1..Len(wrapOut.lines) :
          /\ hasSpace(wrapOut.lines[i])
          /\ Len(withoutSpaces(wrapOut.lines[i])) >= 2

\* C2: deployed wrapText: when maxWidth is at least the width of the widest
\* glyph of the text, every returned line is at most maxWidth wide, also when
\* one word of the text is wider than maxWidth.
C2_deployedLinesFit ==
    (wrapOut.by = "deployed" /\ widestGlyphFits(wrapIn.text, wrapIn.maxWidth))
        => allLinesFit(wrapOut.lines, wrapIn.maxWidth)

\* the call made no forced character-level split
noForcedSplit ==
    wrapOut.by = "deployed"
    \/ (wrapOut.by = "v7" /\ ~forcedSplit(wrapIn.text, wrapIn.maxWidth))

\* C9 as stated: without a forced split, the lines joined by single spaces are
\* the whitespace-normalized text.
C9_joinIsNormalizedText ==
    (wrapped /\ noForcedSplit)
        => join(wrapOut.lines, <<Space>>) = normalized(wrapIn.text)

\* C9 amended: without a forced split, the lines joined by single spaces and
\* the text have the same whitespace normalization.
C9_joinNormalizesToText ==
    (wrapped /\ noForcedSplit)
        => normalized(join(wrapOut.lines, <<Space>>)) = normalized(wrapIn.text)

\* a result of several lines, without forced split, of a text with a run of spaces
C9_witness ==
    /\ wrapped
    /\ noForcedSplit
    /\ Len(wrapOut.lines) >= 2
    /\ wrapIn.text # normalized(wrapIn.text)
    /\ Len(nonEmptyWords(split(wrapIn.text))) >= 3

\* C10: for every input the glyphs of the returned lines, spaces removed, are
\* the glyphs of the text, spaces removed, in the same order.
C10_contentPreserved ==
    wrapped => withoutSpaces(concat(wrapOut.lines)) = withoutSpaces(wrapIn.text)

\* a v7 result whose word was split at character level into several chunks
C10_witness ==
    /\ wrapOut.by = "v7"
    /\ forcedSplit(wrapIn.text, wrapIn.maxWidth)
    /\ Len(wrapOut.lines) >= 3
    /\ Len(nonEmptyWords(split(wrapIn.text))) >= 2

\* C11: in the v7 and in the deployed generator, wrapText returns exactly the
\* one-element list [text] when the text is at most maxWidth wide, and [""] for
\* the empty string.
C11_shortInputReturned ==
    (wrapped /\ getTextWidth(wrapIn.text) <= wrapIn.maxWidth)
        => wrapOut.lines = <<wrapIn.text>>

-----------------------------------------------------------------------------
(* Vocabulary of the claims about generatePDF *)

\* the last generatePDF call returned normally
exportSucceeded ==
    pc = "idle" /\ exports > 0 /\ thrown = NoError /\ notes = <<"success">>

\* the layout state when the content stage of the running call starts
startOfContent ==
    runOps(stageOps("header", cvData, newPdf),
           [pdf |-> newPdf, y |-> topMargin, err |-> NoError])

\* the content stage of the running call has just returned
contentDone ==
    /\ pc \in {"footer", "save"}
    /\ stageLog = <<"init", "header", "content">>
    /\ pc = "footer" => Len(queue) = pdf.pages

\* cv with property f deleted
without(cv, f) == [cv EXCEPT !.has = @ \ {f}, ![f] = blankCV[f]]

\* the layout state the content stage leaves for cv, started after the header
\* of the running call
contentResult(cv) == runOps(stageOps("content", cv, newPdf), startOfContent)

noDrawOf(sec) == \A i \in 1..Len(pdf.draws) : pdf.draws[i].sec # sec

titleDrawn(sec) ==
    \E i \in 1..Len(pdf.draws) : pdf.draws[i].sec = sec /\ pdf.draws[i].kind = "title"

\* C3: checkPageBreak(space): when currentY + space exceeds pageHeight minus the
\* bottom margin, the call adds exactly one page and sets currentY to the top
\* margin; otherwise it leaves currentY and the document unchanged.
C3_checkPageBreak ==
    [][CheckPageBreakStep =>
          IF currentY + Head(queue).n > bottomLimit
          THEN /\ pdf'.pages = pdf.pages + 1
               /\ currentY' = topMargin
          ELSE /\ pdf' = pdf
               /\ currentY' = currentY]_vars

\* checkPageBreak has just added the second page in the middle of a list
C3_witness ==
    /\ pc = "content"
    /\ pdf.pages = 2
    /\ currentY = topMargin
    /\ queue # <<>>
    /\ Head(queue).op = "text"
    /\ Head(queue).kind = "bullet"

\* C4: every successful generatePDF call, in the v7 and in the deployed
\* generator, completes the stages init, header, content, footer, save in this
\* order, each exactly once.
C4_fiveStagesInOrder ==
    exportSucceeded => stageLog = <<"init", "header", "content", "footer", "save">>

StageErrors ==
    {surfaceError("init"), surfaceError("header"), surfaceError("content"),
     surfaceError("footer"), TypeError}

\* C5: when initDocument, addHeader, addContent or addFooter throws, pdf.save is
\* not invoked for that call and generatePDF throws the same error to its caller.
C5_throwMeansNoSaveAndRethrow ==
    err \in StageErrors =>
        /\ saved = <<>>
        /\ \A i \in 1..Len(stageLog) : stageLog[i] # "save"
        /\ pc \in {"catch", "idle"}
        /\ pc = "idle" => thrown = err

\* a call that threw in the footer stage, after drawing, has returned
C5_witness ==
    /\ pc = "idle"
    /\ err = surfaceError("footer")
    /\ thrown = err
    /\ Len(pdf.draws) > 0

\* C6: a generatePDF call made while the library is not ready, or with a nome
\* that is missing or empty, throws at once: no document is constructed, the
\* cursor is not reset, nothing is drawn, no stage runs and nothing is saved.
C6_rejectedBeforeLayout ==
    [][(exports' = exports + 1 /\ (~isReady \/ ~truthy(cvData', "nome")))
          => /\ thrown' \in {notReadyError, invalidDataError}
             /\ pc' = "idle"
             /\ pdf' = pdf
             /\ currentY' = currentY
             /\ stageLog' = <<>>
             /\ saved' = <<>>]_vars

\* a call with an empty nome was rejected after an earlier export had drawn
C6_witness ==
    /\ pc = "idle"
    /\ exports = 2
    /\ isReady
    /\ ~truthy(cvData, "nome")
    /\ thrown = invalidDataError
    /\ pdf.open
    /\ Len(pdf.draws) > 0

emptyCertifications == "certificacoes" \in cvData.has /\ cvData.certificacoes = <<>>

\* the CV of the scenario: a name, a one-line summary and certificacoes = []
scenarioCV ==
    /\ cvData.has = {"nome", "resumo", "certificacoes"}
    /\ cvData.certificacoes = <<>>
    /\ cvData.resumo # <<>>
    /\ getTextWidth(cvData.resumo) <= DCONFIG.maxWidth

\* C7: with certificacoes = [] the content stage draws nothing for the
\* certifications section and leaves the document and currentY as for the same
\* CV without the property; the scenario CV gets a summary section, no
\* certifications section, and a saved document of exactly 1 page.
C7_emptyCertifications ==
    /\ (contentDone /\ emptyCertifications) =>
          /\ noDrawOf("CERTIFICATIONS")
          /\ pdf = contentResult(without(cvData, "certificacoes")).pdf
          /\ currentY = contentResult(without(cvData, "certificacoes")).y
    /\ (exportSucceeded /\ scenarioCV) =>
          /\ titleDrawn("SUMMARY")
          /\ noDrawOf("CERTIFICATIONS")
          /\ Len(saved) = 1
          /\ saved[1].pages = 1

\* the export of the scenario CV has succeeded
C7_witness == exportSucceeded /\ scenarioCV /\ titleDrawn("SUMMARY")

SectionOf ==
    [objetivo |-> "OBJECTIVE", resumo |-> "SUMMARY", projetos |-> "PROJECTS",
     habilidades |-> "SKILLS", formacao |-> "EDUCATION",
     certificacoes |-> "CERTIFICATIONS", experiencia |-> "EXPERIENCE"]

\* the section data is undefined, '', [], or a category mapping without a
\* non-empty category
emptySection(cv, f) ==
    CASE f \in {"objetivo", "resumo"} -> ~truthy(cv, f)
      [] f = "habilidades" ->
             \/ f \notin cv.has
             \/ /\ cv.habilidades.shape = "list"
                /\ cv.habilidades.items = <<>>
             \/ /\ cv.habilidades.shape = "map"
                /\ \A c \in 1..Len(cv.habilidades.cats) :
                      cv.habilidades.cats[c].items = <<>>
      [] OTHER -> ~nonEmptyList(cv, f)

\* C8: in the v7 generator a section whose data is empty produces no title, no
\* body line and no spacing: no draw call, and the document and currentY are as
\* for the same CV without the property.
C8_emptySectionsDrawNothing ==
    (variant = "v7" /\ contentDone) =>
        \A f \in DOMAIN SectionOf :
            emptySection(cvData, f) =>
                /\ noDrawOf(SectionOf[f])
                /\ pdf = contentResult(without(cvData, f)).pdf
                /\ currentY = contentResult(without(cvData, f)).y

-----------------------------------------------------------------------------
(* Vocabulary of the claims about the experience section and the footer *)

drawsOfKind(draws, kind) == SelectSeq(draws, LAMBDA d : d.kind = kind)

taskDraws == drawsOfKind(pdf.draws, "task")

\* the distance between two body lines, and the width of a task line
lineStep == IF variant # "deployed" THEN CONFIG.LINE ELSE DCONFIG.lineHeight
taskWidth ==
    IF variant # "deployed" THEN contentWidth - 10 ELSE DCONFIG.maxWidth - DCONFIG.BULLET_INDENT

\* cvData has exactly one experience entry, and each of its tasks takes one line
oneEntryOfOneLineTasks ==
    /\ nonEmptyList(cvData, "experiencia")
    /\ Len(cvData.experiencia) = 1
    /\ \A t \in 1..Len(cvData.experiencia[1].tarefas) :
          getTextWidth(bulletOf(cvData.experiencia[1].tarefas[t])) <= taskWidth

\* below the first task line the page has room for fewer lines than there are tasks
roomForFewerTasks ==
    /\ taskDraws # <<>>
    /\ taskDraws[1].y + Len(cvData.experiencia[1].tarefas) * lineStep > bottomLimit

\* draw d1 is above draw d2 in the document
drawnBefore(d1, d2) == d1.page < d2.page \/ (d1.page = d2.page /\ d1.y < d2.y)

\* C12: one experience entry with n one-line tasks on a page with room for
\* fewer than n task lines: the document has at least 2 pages, every task is
\* drawn exactly once and in input order, and an earlier task is on an earlier
\* page than a later one, or on the same page at a strictly smaller y.
C12_tasksAcrossPages ==
    (contentDone /\ oneEntryOfOneLineTasks /\ roomForFewerTasks) =>
        LET tarefas == cvData.experiencia[1].tarefas
        IN  /\ pdf.pages >= 2
            /\ Len(taskDraws) = Len(tarefas)
            /\ \A t \in 1..Len(tarefas) : taskDraws[t].text = bulletOf(tarefas[t])
            /\ \A i, j \in 1..Len(taskDraws) :
                  i < j => drawnBefore(taskDraws[i], taskDraws[j])

\* the v7 content stage has drawn the tasks of the long entry on two pages
C12_witness ==
    /\ variant = "v7"
    /\ contentDone
    /\ oneEntryOfOneLineTasks
    /\ roomForFewerTasks
    /\ Len(cvData.experiencia[1].tarefas) = ManyTasks
    /\ taskDraws[1].page = 1
    /\ taskDraws[ManyTasks].page = 2

\* the footer stage of the running / last call has returned
footerDone == Len(stageLog) >= 4 /\ stageLog[4] = "footer"

footersOn(i) == {k \in 1..Len(pdf.draws) :
                    pdf.draws[k].kind = "footer" /\ pdf.draws[k].page = i}

\* C13: after the footer pass of a document of N pages every page 1..N carries
\* exactly one footer line, which names that page and the total N; N is the page
\* count of the saved document; the footer pass adds no page and leaves
\* currentY where the content stage left it.
C13_oneFooterPerPage ==
    footerDone =>
        /\ \A i \in 1..pdf.pages :
              /\ Cardinality(footersOn(i)) = 1
              /\ \A k \in footersOn(i) : pdf.draws[k].n = i /\ pdf.draws[k].m = pdf.pages
        /\ \A k \in 1..Len(pdf.draws) :
              pdf.draws[k].kind = "footer" => pdf.draws[k].page \in 1..pdf.pages
        /\ \A k \in 1..Len(saved) : saved[k].pages = pdf.pages
        /\ pdf.pages = contentResult(cvData).pdf.pages
        /\ currentY = contentResult(cvData).y

\* a document of two pages has been saved with its footers
C13_witness ==
    /\ footerDone
    /\ exportSucceeded
    /\ pdf.pages = 2
    /\ Len(saved) = 1
    /\ Cardinality(footersOn(1)) = 1

-----------------------------------------------------------------------------
(* Vocabulary of the claim about the order of the sections *)

\* position of a section in the order objective, summary, projects, skills,
\* education, certifications, experience; the header before, the footer after
sectionRank ==
    [HEADER |-> 0, OBJECTIVE |-> 1, SUMMARY |-> 2, PROJECTS |-> 3, SKILLS |-> 4,
     EDUCATION |-> 5, CERTIFICATIONS |-> 6, EXPERIENCE |-> 7, FOOTER |-> 8]

sectionsDrawn == {pdf.draws[k].sec : k \in 1..Len(pdf.draws)}

\* C14: v7 addContent: at every point of an export, every draw call of a
\* section earlier in the order objective, summary, projects, skills, education,
\* certifications, experience was made before every draw call of a later one.
C14_sectionOrder ==
    variant = "v7" =>
        \A k, l \in 1..Len(pdf.draws) :
            k < l => sectionRank[pdf.draws[k].sec] <= sectionRank[pdf.draws[l].sec]

\* a v7 export has drawn projects, certifications and experience
C14_witness ==
    /\ variant = "v7"
    /\ exportSucceeded
    /\ {"PROJECTS", "CERTIFICATIONS", "EXPERIENCE"} \subseteq sectionsDrawn

-----------------------------------------------------------------------------
(* Vocabulary of the claim about notifications *)

\* everything the user was shown by the last export: by the generator, then by
\* its caller
shown == notes \o appNotes

count(seq, x) == Cardinality({k \in 1..Len(seq) : seq[k] = x})

exportReturned == pc = "idle" /\ exports > 0

\* C15: an export that failed (library not ready, invalid name, or an exception
\* during layout) has shown exactly one failure notification and no success
\* notification; an export that succeeded has shown exactly one success
\* notification and no failure notification.
C15_oneNotification ==
    exportReturned =>
        IF thrown # NoError
        THEN count(shown, "error") = 1 /\ count(shown, "success") = 0
        ELSE count(shown, "success") = 1 /\ count(shown, "error") = 0

-----------------------------------------------------------------------------
(* Vocabulary of the claim about repeated exports *)

freshState == [pdf |-> newPdf, y |-> topMargin, err |-> NoError]

\* the layout a new PDFGenerator instance produces for cv: header, content and,
\* in the v7 generator, the footers of the pages made by then
freshLayout(cv) ==
    LET body == runOps(stageOps("content", cv, newPdf),
                       runOps(stageOps("header", cv, newPdf), freshState))
    IN  IF variant # "deployed"
        THEN runOps(stageOps("footer", cv, body.pdf), body)
        ELSE body

\* initDocument has just returned
justInitialized ==
    pc = "header" /\ queue = stageOps("header", cvData, newPdf)

\* the layout of the running call when it reaches save
layoutDone == pc \in {"save", "success"} \/ exportSucceeded

\* C16: every generatePDF call starts from a new one-page document and
\* currentY at the top margin, and the pages and draw positions it produces are
\* those a new instance produces for the same cvData, whatever exports were
\* made before on the instance, also exports that threw midway.
C16_freshStatePerExport ==
    /\ justInitialized => (pdf = newPdf /\ currentY = topMargin)
    /\ layoutDone =>
          /\ pdf = freshLayout(cvData).pdf
          /\ currentY = freshLayout(cvData).y

\* a second export has succeeded on an instance whose first export threw
\* during layout
C16_witness ==
    /\ exportSucceeded
    /\ Len(history) = 2
    /\ history[1] \in {surfaceError("content"), surfaceError("footer"), TypeError}
    /\ Len(pdf.draws) > 0

-----------------------------------------------------------------------------
(* The claims about the page-break checks of the renderers *)

\* C17: during an export, immediately after every checkPageBreak call the
\* cursor is between the margins: top margin <= currentY <= pageHeight minus
\* bottom margin.
C17_cursorAfterCheck ==
    [][CheckPageBreakStep =>
          (topMargin <= currentY' /\ currentY' <= bottomLimit)]_vars

\* a check has let the last line that fits on the first page through
C17_witness ==
    /\ pc = "content"
    /\ pdf.pages = 1
    /\ queue # <<>>
    /\ Head(queue).op = "text"
    /\ currentY + lineStep <= bottomLimit
    /\ currentY + 2 * lineStep > bottomLimit

\* the content stage of the running call is about to make its first call
contentStarts ==
    pc = "content" /\ queue = stageOps("content", cvData, newPdf)

\* call k of the calls is a draw with a checkPageBreak call of its own: a check
\* made before it and after the draw that precedes it
ownCheck(calls, k) ==
    \E j \in 1..(k - 1) :
        /\ calls[j].op = "check"
        /\ \A i \in (j + 1)..(k - 1) : calls[i].op # "text"

\* C18: in every section renderer each unit that is drawn (body line, line of
\* a wrapped bullet, entry header line, link line, section title) is preceded by
\* a checkPageBreak call of its own, made after the previous draw.
C18_checkBeforeEveryUnit ==
    contentStarts =>
        \A k \in 1..Len(queue) : queue[k].op = "text" => ownCheck(queue, k)

-----------------------------------------------------------------------------
(* The claim about the termination of wrapText *)

\* C19: wrapText returns for every text and every maxWidth, also a maxWidth
\* smaller than the width of any single character: every iteration of the
\* character-level split loop pushes a chunk of at least one character and the
\* remainder of the word gets strictly shorter.
C19_wrapTextTerminates ==
    /\ <>(loop.phase = "done")
    /\ [][LoopSplit =>
             /\ Len(loop'.lines) = Len(loop.lines) + 1
             /\ Len(loop'.lines[Len(loop'.lines)]) >= 1
             /\ Len(loop'.remainingWord) < Len(loop.remainingWord)]_vars

\* the lines the stepped call returns are those of wrapText
loopAgreesWithWrapText ==
    loop.phase = "done" => loop.lines = wrapText(wrapIn.text, wrapIn.maxWidth)

\* a call with a maxWidth below the width of every character has returned one
\* chunk per character of a text of several words
C19_witness ==
    /\ loop.phase = "done"
    /\ wrapIn.maxWidth = 0
    /\ Len(nonEmptyWords(split(wrapIn.text))) >= 2
    /\ Len(loop.lines) = Len(withoutSpaces(wrapIn.text))
    /\ Len(loop.lines) >= 4

-----------------------------------------------------------------------------
(* The claim about library detection *)

\* an availability check is made in this step
checkMade == lib'.checks = lib.checks + 1

\* C20: the detection the constructor starts makes at most 50 availability
\* checks; once the library is detected or the limit is reached no check is
\* scheduled any more; the readiness flag becomes true only by a check that
\* finds the library or by the load callback of the dynamic script.
C20_boundedDetection ==
    /\ [](lib.checks <= 50)
    /\ []((isReady \/ lib.attempts >= 50) => ~lib.timer)
    /\ [][~lib.timer => ~lib'.timer]_vars
    /\ [][(~isReady /\ isReady') =>
             \/ checkMade /\ lib.present
             \/ lib.script = "loading" /\ lib'.script = "loaded"]_vars

\* the deployed detection gave up after 50 checks and its dynamic script loaded
C20_witness ==
    /\ variant = "deployed"
    /\ lib.checks = 50
    /\ ~lib.timer
    /\ lib.script = "loaded"
    /\ isReady

-----------------------------------------------------------------------------
(* The claim about the projects section *)

drawsOfSection(draws, sec) ==
    LET body == SelectSeq(draws, LAMBDA d : d.sec = sec /\ d.kind # "title")
    IN  [i \in 1..Len(body) |-> [kind |-> body[i].kind, text |-> body[i].text]]

linesOf(kind, lines) == [i \in 1..Len(lines) |-> [kind |-> kind, text |-> lines[i]]]

\* what the claim expects of one project: the name, the wrapped description if
\* present, the link line if present
projectLines(project) ==
    linesOf("name", wrapText(orElse(project.nome, Placeholder), contentWidth))
    \o (IF project.descricao # <<>>
        THEN linesOf("body", wrapText(project.descricao, contentWidth)) ELSE <<>>)
    \o (IF project.link # <<>>
        THEN linesOf("link", wrapText(Placeholder \o <<Space>> \o project.link,
                                      contentWidth))
        ELSE <<>>)

\* C21: v7 projects section: every entry of cvData.projetos is rendered exactly
\* once and in input order: the name, then the wrapped description if present,
\* then the link line if present; n projects give n names.
C21_everyProjectOnce ==
    (variant = "v7" /\ contentDone /\ nonEmptyList(cvData, "projetos")) =>
        /\ drawsOfSection(pdf.draws, "PROJECTS")
              = concat([p \in 1..Len(cvData.projetos) |->
                           projectLines(cvData.projetos[p])])
        /\ Len(drawsOfKind(pdf.draws, "name")) = Len(cvData.projetos) + 1

-----------------------------------------------------------------------------
(* The claim about the Education & Certifications section of the summary *)

\* the last n items, all of them when there are fewer
lastOf(items, n) ==
    IF Len(items) <= n THEN items ELSE SubSeq(items, Len(items) - n + 1, Len(items))

textsOf(draws) == [k \in 1..Len(draws) |-> draws[k].text]

\* C22: generateSummaryPDF: the combined Education & Certifications section
\* lists the first education entry and the last 3 entries of
\* cvData.certificacoes in their original order (all of them when there are
\* fewer than 3), and no other certification.
C22_lastThreeCertifications ==
    (variant = "summary" /\ contentDone) =>
        /\ nonEmptyList(cvData, "formacao") =>
              textsOf(drawsOfKind(pdf.draws, "education"))
                  = <<educationLine(cvData.formacao[1])>>
        /\ textsOf(drawsOfKind(pdf.draws, "cert"))
              = [c \in 1..Len(lastOf(cvData.certificacoes, 3)) |->
                    dashOf(lastOf(cvData.certificacoes, 3)[c])]

-----------------------------------------------------------------------------
(* DataManager (docs/js/data-manager.js) under the calls CVApplication makes *)

\* fields of dm
\*   cvData, currentLanguage, isLoading, dataCache, abortController: the
\*     DataManager fields of the same names; a controller is the number of the
\*     load that made it, 0 is null; aborted holds the controllers whose
\*     abort() was called
\*   loads: the loadCVData calls that missed the cache, in the order they
\*     started: lang, who called, the fallback URL being fetched (the load has
\*     issued one fetch per URL up to it), the signal the fetch was given, and
\*     "fetching" / "done" / "failed"
\*   ret: what the last cache hit returned
\*   started, appLanguage, shown: CVApplication has run loadInitialState, its
\*     currentLanguage, and the language of the data populateContent was given

MaxLoads == 3
NumUrls == 4

isDataLoaded(d) == d.cvData # NoData

isDataLoading(d) == d.isLoading

\* loadCVData, the cache-hit branch
returnCached_keepLanguage(d, L) ==
    [d EXCEPT !.cvData = d.dataCache[L], !.ret = d.dataCache[L]]

returnCached(d, L) ==
    [d EXCEPT !.cvData = d.dataCache[L], !.currentLanguage = L,
              !.ret = d.dataCache[L]]

\* loadCVData past the cache check, up to the first await: the previous controller
\* is aborted, a new one is made, and attemptDataLoad calls fetchWithTimeout on
\* the first URL, which reads this.abortController.signal
startLoad(d, L, caller) ==
    LET c == Len(d.loads) + 1
    IN [d EXCEPT !.isLoading = TRUE,
                 !.aborted = IF d.abortController # 0
                             THEN @ \cup {d.abortController} ELSE @,
                 !.abortController = c,
                 !.loads = Append(@, [lang |-> L, caller |-> caller, url |-> 1,
                                      signal |-> c, status |-> "fetching"])]

loadCVData(d, L, caller) ==
    IF d.dataCache[L] # NoData THEN returnCached(d, L) ELSE startLoad(d, L, caller)

\* the finally block of loadCVData
settle(d, i, status) ==
    [d EXCEPT !.isLoading = FALSE, !.abortController = 0,
              !.loads[i].status = status]

\* attemptDataLoad after the fetch of load i was rejected: the catch block goes
\* on with the next URL. fetchWithTimeout reads this.abortController.signal
\* before it calls fetch, so with a null controller every remaining URL throws
\* TypeError without a request and the load fails.
nextUrl(d, i) ==
    IF d.loads[i].url < NumUrls /\ d.abortController # 0
    THEN [d EXCEPT !.loads[i].url = @ + 1,
                   !.loads[i].signal = d.abortController]
    ELSE settle(d, i, "failed")

alternate(L) == IF L = "pt" THEN "en" ELSE "pt"

preloadAlternateLanguage(d, currentLanguage) ==
    IF d.dataCache[alternate(currentLanguage)] = NoData
    THEN loadCVData(d, alternate(currentLanguage), "preload")
    ELSE d

\* loadLanguageData after loadCVData returned data
populate(d, L, data) ==
    preloadAlternateLanguage([d EXCEPT !.shown = data.lang, !.appLanguage = L], L)

loadLanguageData(d, L) ==
    IF d.dataCache[L] # NoData
    THEN populate(returnCached(d, L), L, d.dataCache[L])
    ELSE startLoad(d, L, "app")

\* loadCVData after attemptDataLoad returned the data of load i
store(d, i) ==
    LET L == d.loads[i].lang
        data == [lang |-> L, id |-> i]
        stored == [settle(d, i, "done") EXCEPT !.dataCache[L] = data,
                                               !.cvData = data,
                                               !.currentLanguage = L]
    IN IF d.loads[i].caller = "app" THEN populate(stored, L, data) ELSE stored

clearCache(d) ==
    [d EXCEPT !.dataCache = [l \in Languages |-> NoData], !.cvData = NoData,
              !.currentLanguage = "pt"]

inFlight(d) == {i \in 1..Len(d.loads) : d.loads[i].status = "fetching"}

dataIdle == <<genVars, wrapIn, wrapOut, loop, lib, cvapp, button>>

\* CVApplication.loadInitialState
LoadInitialState(L) ==
    /\ ~dm.started
    /\ dm' = loadLanguageData([dm EXCEPT !.started = TRUE], L)
    /\ Len(dm'.loads) <= MaxLoads
    /\ UNCHANGED dataIdle

\* CVApplication.handleLanguageSwitch, a click on a language button
HandleLanguageSwitch(L) ==
    /\ dm.started
    /\ L # dm.appLanguage
    /\ dm' = loadLanguageData(dm, L)
    /\ Len(dm'.loads) <= MaxLoads
    /\ UNCHANGED dataIdle

\* UIManager.handleLanguageChange, which calls loadCVData itself
DirectLoad(L) ==
    /\ dm.started
    /\ L # dm.currentLanguage
    /\ dm' = loadCVData(dm, L, "direct")
    /\ Len(dm'.loads) <= MaxLoads
    /\ UNCHANGED dataIdle

\* the fetch of load i is rejected: network error, HTTP error, timeout, invalid
\* data, or AbortError
FetchFails(i) ==
    /\ i \in inFlight(dm)
    /\ dm' = nextUrl(dm, i)
    /\ UNCHANGED dataIdle

\* the fetch of load i delivers valid data
FetchSucceeds(i) ==
    /\ i \in inFlight(dm)
    /\ dm.loads[i].signal \notin dm.aborted
    /\ dm' = store(dm, i)
    /\ Len(dm'.loads) <= MaxLoads
    /\ UNCHANGED dataIdle

ClearCache ==
    /\ dm.started
    /\ dm' = clearCache(dm)
    /\ UNCHANGED dataIdle

InitData ==
    /\ variant = "deployed"
    /\ isReady = FALSE
    /\ pc = "idle"
    /\ cvData = blankCV
    /\ language = "pt"
    /\ pdf = NoPdf
    /\ currentY = 0
    /\ queue = <<>>
    /\ stageLog = <<>>
    /\ saved = <<>>
    /\ notes = <<>>
    /\ thrown = NoError
    /\ err = NoError
    /\ exports = 0
    /\ appNotes = <<>>
    /\ history = <<>>
    /\ wrapIn = IdleWrapIn
    /\ wrapOut = NoWrap
    /\ loop = NoLoop
    /\ lib = NoLib
    /\ dm = NoDm
    /\ cvapp = NoCVApp
    /\ button = NoButton

NextData ==
    \/ \E L \in Languages : LoadInitialState(L)
    \/ \E L \in Languages : HandleLanguageSwitch(L)
    \/ \E L \in Languages : DirectLoad(L)
    \/ \E i \in 1..MaxLoads : FetchFails(i)
    \/ \E i \in 1..MaxLoads : FetchSucceeds(i)
    \/ ClearCache

SpecData == InitData /\ [][NextData]_vars

-----------------------------------------------------------------------------
(* Claims about DataManager and CVApplication *)

RECURSIVE fetchesUpTo(_, _)
\* the fetches the first n loads have issued
fetchesUpTo(d, n) == IF n = 0 THEN 0 ELSE fetchesUpTo(d, n - 1) + d.loads[n].url

requests(d) == fetchesUpTo(d, Len(d.loads))

cached(L) == dm.dataCache[L] # NoData

\* C23: once a load of language L has succeeded, a later loadCVData(L) made
\* before clearCache() issues no network request, sets cvData and
\* currentLanguage to L, and returns the cached object, which stays the same
\* object until clearCache(); clearCache() leaves the cache empty, cvData {}
\* and isDataLoaded() false.
C23_cachedLoad ==
    [][/\ \A L \in Languages :
            (cached(L) /\ DirectLoad(L)) =>
                /\ requests(dm') = requests(dm)
                /\ dm'.ret = dm.dataCache[L]
                /\ dm'.cvData = dm.dataCache[L]
                /\ dm'.cvData.lang = L
                /\ dm'.currentLanguage = L
       /\ \A L \in Languages :
            (cached(L) /\ ~ClearCache) => dm'.dataCache[L] = dm.dataCache[L]
       /\ ClearCache =>
                /\ \A L \in Languages : dm'.dataCache[L] = NoData
                /\ dm'.cvData = NoData
                /\ ~isDataLoaded(dm')]_vars

\* load i is in flight and a later load that missed the cache has started
superseded(d, i) == i \in inFlight(d) /\ i < Len(d.loads)

\* C24: a load that is still in flight when a newer loadCVData call misses the
\* cache is cancelled: from then on it issues no further fetch and never writes
\* the cache, cvData or currentLanguage; and when it finishes, the newest
\* load, still in flight, keeps its abort controller and the loading flag.
C24_earlierLoadCancelled ==
    [][\A i \in 1..Len(dm.loads) :
            superseded(dm, i) =>
                /\ dm'.loads[i].url = dm.loads[i].url
                /\ dm'.loads[i].status # "done"
                /\ (i \notin inFlight(dm') /\ Len(dm.loads) \in inFlight(dm')) =>
                        /\ dm'.abortController = dm.abortController
                        /\ dm'.isLoading]_vars

\* C25: isDataLoading() is true exactly while some loadCVData call has started
\* a network load and has not settled, overlapping loads included.
C25_loadingFlag == isDataLoading(dm) <=> inFlight(dm) # {}

\* load i is the background preload of the language that is not shown, it is
\* the only load in flight, and the DataManager refers to the language shown
preloadRunning(i) ==
    /\ inFlight(dm) = {i}
    /\ dm.loads[i].caller = "preload"
    /\ dm.loads[i].lang = alternate(dm.appLanguage)
    /\ dm.shown = dm.appLanguage
    /\ dm.cvData.lang = dm.appLanguage
    /\ dm.currentLanguage = dm.appLanguage

\* C26: preloading only fills the cache: when the background preload started by
\* loadLanguageData(L) finishes, getCVData() and getCurrentLanguage() still
\* refer to L, the language CVApplication shows and exports.
C26_preloadOnlyFillsCache ==
    [][\A i \in 1..Len(dm.loads) :
            (preloadRunning(i) /\ i \notin inFlight(dm')) =>
                /\ dm'.appLanguage = dm.appLanguage
                /\ dm'.cvData.lang = dm.appLanguage
                /\ dm'.currentLanguage = dm.appLanguage]_vars

-----------------------------------------------------------------------------
(* CVApp, the single-file application (part_000) *)

\* fields of cvapp
\*   data: the language of this.data, "none" for {}; lang: this.lang
\*   active: the language button marked active
\*   saved: localStorage 'cv-lang'; switched: switchLanguage has written it
\*   loads: the loadData calls in the order they started: lang, the caller
\*     ("init" / "switch"), and "fetching" / "loaded" / "failed"

MaxClicks == 3

StoredLanguages == Languages \cup {"none"}

\* loadPreferences: URL parameter, then localStorage, then the default
loadPreferences(urlLang, savedLang) ==
    IF urlLang # "none" THEN urlLang
    ELSE IF savedLang # "none" THEN savedLang
    ELSE "pt"

\* loadData up to its first await
loadData(a, lang, caller) ==
    [a EXCEPT !.loads = Append(@, [lang |-> lang, caller |-> caller,
                                   status |-> "fetching"])]

\* new CVApp(): the constructor runs init up to the await of loadData
newCVApp(urlLang, savedLang) ==
    LET lang == loadPreferences(urlLang, savedLang)
    IN loadData([NoCVApp EXCEPT !.lang = lang, !.active = lang,
                                !.saved = savedLang], lang, "init")

\* what the caller does once loadData has returned: switchLanguage marks the
\* button of this.lang and saves its argument, init does neither
afterLoadData(a, i) ==
    IF a.loads[i].caller = "switch"
    THEN [a EXCEPT !.active = a.lang, !.saved = a.loads[i].lang,
                   !.switched = TRUE]
    ELSE a

cvappIdle == <<genVars, wrapIn, wrapOut, loop, lib, dm, button>>

\* a click on a language button
SwitchLanguage(lang) ==
    /\ Len(cvapp.loads) <= MaxClicks
    /\ lang # cvapp.lang
    /\ cvapp' = loadData(cvapp, lang, "switch")
    /\ UNCHANGED cvappIdle

\* the response of loadData call i arrives and is ok
DataArrives(i) ==
    /\ i \in 1..Len(cvapp.loads)
    /\ cvapp.loads[i].status = "fetching"
    /\ cvapp' = afterLoadData([cvapp EXCEPT !.data = cvapp.loads[i].lang,
                                            !.lang = cvapp.loads[i].lang,
                                            !.loads[i].status = "loaded"], i)
    /\ UNCHANGED cvappIdle

\* the fetch of loadData call i fails or answers with an error status
DataFails(i) ==
    /\ i \in 1..Len(cvapp.loads)
    /\ cvapp.loads[i].status = "fetching"
    /\ cvapp' = afterLoadData([cvapp EXCEPT !.loads[i].status = "failed"], i)
    /\ UNCHANGED cvappIdle

InitCVApp ==
    /\ variant = "v7"
    /\ isReady = FALSE
    /\ pc = "idle"
    /\ cvData = blankCV
    /\ language = "pt"
    /\ pdf = NoPdf
    /\ currentY = 0
    /\ queue = <<>>
    /\ stageLog = <<>>
    /\ saved = <<>>
    /\ notes = <<>>
    /\ thrown = NoError
    /\ err = NoError
    /\ exports = 0
    /\ appNotes = <<>>
    /\ history = <<>>
    /\ wrapIn = IdleWrapIn
    /\ wrapOut = NoWrap
    /\ loop = NoLoop
    /\ lib = NoLib
    /\ dm = NoDm
    /\ cvapp \in {newCVApp(u, s) : u \in StoredLanguages, s \in StoredLanguages}
    /\ button = NoButton

NextCVApp ==
    \/ \E lang \in Languages : SwitchLanguage(lang)
    \/ \E i \in 1..(MaxClicks + 1) : DataArrives(i)
    \/ \E i \in 1..(MaxClicks + 1) : DataFails(i)

SpecCVApp == InitCVApp /\ [][NextCVApp]_vars

settled == \A i \in 1..Len(cvapp.loads) : cvapp.loads[i].status # "fetching"

\* C27: once all pending loadData calls have completed, the displayed data
\* (this.data, when there is any), this.lang, the active language button and
\* (when a switch was made) the saved 'cv-lang' name the same language.
C27_oneLanguage ==
    settled =>
        /\ cvapp.data # "none" => cvapp.data = cvapp.lang
        /\ cvapp.active = cvapp.lang
        /\ cvapp.switched => cvapp.saved = cvapp.lang

-----------------------------------------------------------------------------
(* The export button under CVApplication.handlePDFExport (docs/js/app.js) *)

\* fields of button
\*   textContent: "label" is the label of the page, "done" / "error" are the
\*     texts handlePDFExport shows after generatePDF returned / threw
\*   disabled: the button's disabled property
\*   timers: the restore timers not yet fired, in the order they were set,
\*     each with the text it restores and its delay in milliseconds
\*   triggers: exports started so far

MaxTriggers == 4

\* handlePDFExport from the read of the button to the setTimeout. generatePDF
\* awaits nothing that yields to the event loop, so no other handler runs in
\* between and the text shown while it generates is never read back.
handlePDFExport(b, outcome) ==
    LET originalText == b.textContent
    IN [b EXCEPT !.textContent = IF outcome = "ok" THEN "done" ELSE "error",
                 !.disabled = TRUE,
                 !.timers = Append(@, [text |-> originalText,
                                       delay |-> IF outcome = "ok" THEN 2000
                                                 ELSE 3000]),
                 !.triggers = @ + 1]

\* timer j can be the next to fire: no timer set before it is due earlier
due(b, j) == \A i \in 1..(j - 1) : b.timers[i].delay > b.timers[j].delay

removeAt(s, j) == SubSeq(s, 1, j - 1) \o SubSeq(s, j + 1, Len(s))

buttonIdle == <<genVars, wrapIn, wrapOut, loop, lib, dm, cvapp>>

\* a click on the export button; a disabled button receives no click
ClickExport(outcome) ==
    /\ button.triggers < MaxTriggers
    /\ ~button.disabled
    /\ button' = handlePDFExport(button, outcome)
    /\ UNCHANGED buttonIdle

\* the Ctrl/Cmd+P shortcut calls handlePDFExport whatever the button's state
ShortcutExport(outcome) ==
    /\ button.triggers < MaxTriggers
    /\ button' = handlePDFExport(button, outcome)
    /\ UNCHANGED buttonIdle

\* a restore timer fires
RestoreButton(j) ==
    /\ j \in 1..Len(button.timers)
    /\ due(button, j)
    /\ button' = [button EXCEPT !.textContent = button.timers[j].text,
                                !.disabled = FALSE,
                                !.timers = removeAt(@, j)]
    /\ UNCHANGED buttonIdle

InitButton ==
    /\ variant = "deployed"
    /\ isReady = FALSE
    /\ pc = "idle"
    /\ cvData = blankCV
    /\ language = "pt"
    /\ pdf = NoPdf
    /\ currentY = 0
    /\ queue = <<>>
    /\ stageLog = <<>>
    /\ saved = <<>>
    /\ notes = <<>>
    /\ thrown = NoError
    /\ err = NoError
    /\ exports = 0
    /\ appNotes = <<>>
    /\ history = <<>>
    /\ wrapIn = IdleWrapIn
    /\ wrapOut = NoWrap
    /\ loop = NoLoop
    /\ lib = NoLib
    /\ dm = NoDm
    /\ cvapp = NoCVApp
    /\ button = [NoButton EXCEPT !.textContent = "label"]

NextButton ==
    \/ \E outcome \in {"ok", "threw"} : ClickExport(outcome)
    \/ \E outcome \in {"ok", "threw"} : ShortcutExport(outcome)
    \/ \E j \in 1..MaxTriggers : RestoreButton(j)

SpecButton == InitButton /\ [][NextButton]_vars

\* C28: after any sequence of export triggers, once all restore timers have
\* fired, the export button is enabled and shows the label it had before the
\* first export.
C28_buttonRestored ==
    button.timers = <<>> => (~button.disabled /\ button.textContent = "label")

-----------------------------------------------------------------------------
(* Claims about where the v7 generator draws *)

\* C29: in the v7 generator a section title is never left alone at the bottom
\* of a page: the title and the first line drawn after it for the same section
\* are on the same page.
C29_titleNotOrphaned ==
    variant = "v7" =>
        \A k \in 1..(Len(pdf.draws) - 1) :
            (pdf.draws[k].kind = "title" /\ pdf.draws[k + 1].sec = pdf.draws[k].sec) =>
                pdf.draws[k + 1].page = pdf.draws[k].page

\* C30: in the v7 generator every text drawn before the footer pass (header
\* name, subtitle lines, contact lines, section lines) is drawn at a y between
\* the top margin and the page height minus the bottom margin.
C30_textWithinMargins ==
    variant = "v7" =>
        \A k \in 1..Len(pdf.draws) :
            (pdf.draws[k].sec # "FOOTER" /\ pdf.draws[k].kind # "rule") =>
                (topMargin <= pdf.draws[k].y /\ pdf.draws[k].y <= bottomLimit)

====
